---- MODULE Spec2Model ----
(***************************************************************************)
(* A model of the B-tree package: the copy-on-write implementation         *)
(* (src/unnamed/part_001: FreeList, node, ImmutableBTree, btreeContext,     *)
(* Builder, BTree) and the generic implementation (src/btree_generic.go:    *)
(* FreeListG, node[T], BTreeG).                                             *)
(*                                                                         *)
(* Go pointers are object identities: nodes live in `heap`, tree structs    *)
(* in `trees`, free lists in `pools`; 0 is the nil pointer.  Go slices are  *)
(* sequences; the operators keep Go's 0-based indices in their parameters   *)
(* and results and add 1 where a sequence is subscripted.                   *)
(***************************************************************************)
EXTENDS Integers, Sequences, FiniteSets, TLC

\* ------------------------------------------------------------------ bounds
\* Keys are 1..MaxKey for a BTree, 1..MaxKeyB for a Builder, 1..MaxKeyG for
\* a BTreeG that is also deleted from.
MaxKey == 8
MaxKeyB == 4
MaxKeyG == 6
\* Keys are 1..MaxKeyS for two Builders that share a snapshot, and each of
\* them makes at most MaxCalls calls.
MaxKeyS == 3
MaxCalls == 2
\* Degrees are 2..MaxDegree.
MaxDegree == 3
\* The caller keeps at most MaxSnaps snapshots returned by Build.
MaxSnaps == 1
\* One call on a BTreeG makes at most MaxDescent recursive calls of
\* node[T].insert or node[T].remove; a call that needs more has entered a
\* cycle of nodes and never returns (the runtime ends it: stack overflow).
MaxDescent == 16

\* ------------------------------------------------------- program constants
DefaultFreeListSize == 32

removeItem == 0
removeMin == 1
removeMax == 2

\* ------------------------------------------------------------------- items
\* An item is <<key, tag>>: Less orders by key alone, so two items with the
\* same key and different tags are equal under the ordering and distinct.
nilItem == <<0, 0>>

\* The second item with this key (tag 1) exists for the keys in Twins.
Twins == {2}

ItemsUpTo(k) == {<<i, 0>> : i \in 1..k} \cup {<<i, 1>> : i \in Twins \cap (1..k)}

Less(a, b) == a[1] < b[1]

\* ------------------------------------------------------------------- state
VARIABLES
  impl,      \* which object the behaviour drives: "BTree", "Builder", "BTreeG",
             \* "Builders", "BTreeGs", "FreeListG", "ImmutableBTree"; "none"
             \* before a constructor has returned one
  heap,      \* node objects: heap[n] = [items, children] (and t for node[T])
  trees,     \* ImmutableBTree / BTreeG structs: [degree, length, root]
  pools,     \* FreeList / FreeListG objects: [freelist, cap] (and the mutex
             \* mu where goroutines call the FreeListG)
  btree,     \* the BTree struct: [tree, writables, tracking, freelist]
  builders,  \* the Builder structs: [copied, tree, writables, tracking, freelist]
  snaps,     \* the snapshots the caller holds (tree pointers), oldest first;
             \* snaps[g] is the BTreeG of goroutine g where there are two
  panicked,  \* a Go panic has unwound the last call
  calls,     \* calls[b]: the calls made through Builder b since the program
             \* has two Builders (<<>> before); calls[g]: the FreeListG call
             \* goroutine g is in
  ref        \* history: the items a reference ordered map would hold, for
             \* the tree being written (ref.cur[b]) and for each snapshot when
             \* it was built (ref.snap[i]); the degree a constructor was asked
             \* for (ref.asked); the nodes the goroutines and the FreeListG
             \* hold (ref.held, ref.pooled)

vars == <<impl, heap, trees, pools, btree, builders, snaps, panicked, calls,
          ref>>

\* v bound to a name in F: the value of an intermediate statement
With(v, F(_)) == F(v)

\* ------------------------------------------------------- slice primitives
\* items.insertAt / children.insertAt
insertAt(s, index, x) ==
  SubSeq(s, 1, index) \o <<x>> \o SubSeq(s, index + 1, Len(s))

\* items.removeAt / children.removeAt: the slice without element `index`
removeAt(s, index) ==
  SubSeq(s, 1, index) \o SubSeq(s, index + 2, Len(s))

\* pop that drops the first element
popFront(s) == SubSeq(s, 2, Len(s))

\* items.pop / children.pop: the slice without its last element
pop(s) == SubSeq(s, 1, Len(s) - 1)

\* items.truncate / children.truncate
truncate(s, index) == SubSeq(s, 1, index)

\* s[i:] of Go
From(s, i) == SubSeq(s, i + 1, Len(s))

\* sort.Search(n, f) with f(h) = item.Less(s[h]): the binary search of the
\* standard library, on [i, j).
RECURSIVE Search(_, _, _, _)
Search(s, item, i, j) ==
  IF i < j
    THEN LET h == (i + j) \div 2 IN
         IF ~Less(item, s[h + 1]) THEN Search(s, item, h + 1, j)
                                  ELSE Search(s, item, i, h)
    ELSE i

\* find that takes the item before the insertion point for an equal one
findAlways(s, item) ==
  LET i == Search(s, item, 0, Len(s)) IN
  IF i > 0 THEN [index |-> i - 1, found |-> TRUE]
           ELSE [index |-> i, found |-> FALSE]

\* items.find
find(s, item) ==
  LET i == Search(s, item, 0, Len(s)) IN
  IF i > 0 /\ ~Less(s[i], item)
    THEN [index |-> i - 1, found |-> TRUE]
    ELSE [index |-> i, found |-> FALSE]

\* ------------------------------------ copy-on-write implementation (part_001)
\* The operators below take and return the part of the state a call can
\* touch, as a record c: the objects (heap, trees, pools) and the fields of
\* the btreeContext the call runs with (writables, tracking, freelist).
\* tracking = FALSE is writables == nil.  c.written collects the nodes of
\* which the call assigned a field or an element of items or children, and
\* c.assigned the tree structs of which it assigned root or length.  c.log
\* is the sequence of the steps of the call so far: the entries of insert,
\* split, maybeSplitChild (when it splits) and growChildAndRemove, the choice
\* growChildAndRemove makes, its retry of remove, each descent of remove into
\* a child, and the objects after each assignment.

\* The call notes in c.log what it is about to do (e), on which node (n) and
\* at which index (i), with the objects as they are at that point
Note(c, e, n, i) ==
  CHOOSE noted \in {[x EXCEPT !.log = Append(@, [e |-> e, n |-> n, i |-> i,
                                                 at |-> [x EXCEPT !.log = <<>>]])] :
                      x \in {c}} : TRUE

\* The objects after an assignment of the call
Wrote(c) == Note(c, "write", 0, 0)

\* new(node)
emptyNode == [items |-> <<>>, children |-> <<>>]

\* FreeList.newNode
FreeList_newNode(c) ==
  LET f == c.pools[c.freelist].freelist
      index == Len(c.pools[c.freelist].freelist) - 1 IN
  IF index < 0
    THEN [c |-> [c EXCEPT !.heap = Append(@, emptyNode)], n |-> Len(c.heap) + 1]
    ELSE [c |-> [c EXCEPT !.pools[c.freelist].freelist = SubSeq(f, 1, index)],
          n |-> f[index + 1]]

\* freeNode storing the node whatever the free list holds
FreeList_freeNodeAlways(c, n) ==
  [c EXCEPT !.pools[c.freelist].freelist = Append(@, n)]

\* FreeList.freeNode
FreeList_freeNode(c, n) ==
  LET f == c.pools[c.freelist] IN
  IF Len(f.freelist) < f.cap
    THEN [c EXCEPT !.pools[c.freelist].freelist = Append(@, n)]
    ELSE c

\* btreeContext.newNode
newNode(c) ==
  With(FreeList_newNode(c), LAMBDA r :
    IF r.c.tracking
      THEN [c |-> [r.c EXCEPT !.writables = @ \cup {r.n}], n |-> r.n]
      ELSE r)

\* freeNode that releases a shared node as well
freeNodeShared(c, n) ==
  FreeList_freeNode(
    Wrote([c EXCEPT !.heap[n].items = truncate(@, 0),
              !.heap[n].children = truncate(@, 0),
              !.writables = IF c.tracking THEN @ \ {n} ELSE @,
              !.written = @ \cup {n}]), n)

\* freeNode that leaves the node in the writable set
freeNodeStillWritable(c, n) ==
  IF ~c.tracking \/ n \in c.writables
    THEN FreeList_freeNode(
           Wrote([c EXCEPT !.heap[n].items = truncate(@, 0),
                     !.heap[n].children = truncate(@, 0),
                     !.written = @ \cup {n}]), n)
    ELSE c

\* btreeContext.freeNode
freeNode(c, n) ==
  IF ~c.tracking \/ n \in c.writables
    THEN FreeList_freeNode(
           Wrote([c EXCEPT !.heap[n].items = truncate(@, 0),
                     !.heap[n].children = truncate(@, 0),
                     !.writables = IF c.tracking THEN @ \ {n} ELSE @,
                     !.written = @ \cup {n}]), n)
    ELSE c

\* writableNode that does not mark the copy unshared
writableNodeUnmarked(c, n) ==
  IF ~c.tracking \/ n \in c.writables
    THEN [c |-> c, n |-> n]
    ELSE
      With(FreeList_newNode(c), LAMBDA r :
        [c |-> Wrote([r.c EXCEPT !.heap[r.n].items = @ \o c.heap[n].items,
                           !.heap[r.n].children = @ \o c.heap[n].children,
                           !.written = @ \cup {r.n}]),
         n |-> r.n])

\* writableNode that copies a node of the writable set again
writableNodeAgain(c, n) ==
  IF ~c.tracking
    THEN [c |-> c, n |-> n]
    ELSE
      With(newNode(c), LAMBDA r :
        [c |-> Wrote([r.c EXCEPT !.heap[r.n].items = @ \o c.heap[n].items,
                           !.heap[r.n].children = @ \o c.heap[n].children,
                           !.written = @ \cup {r.n}]),
         n |-> r.n])

\* writableNode handing out the shared node itself
writableNodeInPlace(c, n) == [c |-> c, n |-> n]

\* btreeContext.writableNode
writableNode(c, n) ==
  IF ~c.tracking \/ n \in c.writables
    THEN [c |-> c, n |-> n]
    ELSE
      With(newNode(c), LAMBDA r :
      With(Wrote([r.c EXCEPT !.heap[r.n].items = @ \o c.heap[n].items,
                       !.written = @ \cup {r.n}]), LAMBDA c1 :
        [c |-> IF Len(c.heap[n].children) > 0
                 THEN Wrote([c1 EXCEPT !.heap[r.n].children = @ \o c.heap[n].children,
                                 !.written = @ \cup {r.n}])
                 ELSE c1,
         n |-> r.n]))

\* node.split
split(c0, n, i) ==
  With(Note(c0, "split", n, i), LAMBDA c :
  With(newNode(c), LAMBDA r :
  With(Wrote([r.c EXCEPT !.heap[r.n].items = @ \o From(c.heap[n].items, i + 1),
                   !.heap[n].items = truncate(@, i),
                   !.written = @ \cup {r.n, n}]), LAMBDA c1 :
    [c |-> IF Len(c.heap[n].children) > 0
             THEN Wrote([c1 EXCEPT
                     !.heap[r.n].children = @ \o From(c.heap[n].children, i + 1),
                     !.heap[n].children = truncate(@, i + 1),
                     !.written = @ \cup {r.n, n}])
             ELSE c1,
     item |-> c.heap[n].items[i + 1],
     next |-> r.n])))

\* maybeSplitChild that leaves a full child as it is
maybeSplitChildNever(c, n, i, maxItems) == [c |-> c, split |-> FALSE]

\* maybeSplitChild that splits and tells its caller it did not
maybeSplitChildUnreported(c, n, i, maxItems) ==
  IF Len(c.heap[c.heap[n].children[i + 1]].items) < maxItems
    THEN [c |-> c, split |-> FALSE]
    ELSE
      With(writableNode(Note(c, "maybeSplitChild", n, i),
                        c.heap[n].children[i + 1]), LAMBDA w :
      With(split(Wrote([w.c EXCEPT !.heap[n].children[i + 1] = w.n,
                             !.written = @ \cup {n}]), w.n,
                 maxItems \div 2), LAMBDA sp :
        [c |-> Wrote([sp.c EXCEPT !.heap[n].items = insertAt(@, i, sp.item),
                            !.heap[n].children = insertAt(@, i + 1, sp.next),
                            !.written = @ \cup {n}]),
         split |-> FALSE]))

\* node.maybeSplitChild
maybeSplitChild(c, n, i, maxItems) ==
  IF Len(c.heap[c.heap[n].children[i + 1]].items) < maxItems
    THEN [c |-> c, split |-> FALSE]
    ELSE
      \* first := c.writableNode(n.children[i]); n.children[i] = first
      With(writableNode(Note(c, "maybeSplitChild", n, i),
                        c.heap[n].children[i + 1]), LAMBDA w :
      With(split(Wrote([w.c EXCEPT !.heap[n].children[i + 1] = w.n,
                             !.written = @ \cup {n}]), w.n,
                 maxItems \div 2), LAMBDA sp :
        [c |-> Wrote([sp.c EXCEPT !.heap[n].items = insertAt(@, i, sp.item),
                            !.heap[n].children = insertAt(@, i + 1, sp.next),
                            !.written = @ \cup {n}]),
         split |-> TRUE]))

\* node.insert
RECURSIVE insert(_, _, _, _)
insert(c0, n, item, maxItems) ==
  With(Note(c0, "insert", n, 0), LAMBDA c :
  With(find(c.heap[n].items, item), LAMBDA f :
    IF f.found
      THEN [c |-> Wrote([c EXCEPT !.heap[n].items[f.index + 1] = item,
                            !.written = @ \cup {n}]),
            out |-> c.heap[n].items[f.index + 1]]
    ELSE IF Len(c.heap[n].children) = 0
      THEN [c |-> Wrote([c EXCEPT !.heap[n].items = insertAt(@, f.index, item),
                            !.written = @ \cup {n}]),
            out |-> nilItem]
    ELSE
      With(maybeSplitChild(c, n, f.index, maxItems), LAMBDA m :
        LET inTree == m.c.heap[n].items[f.index + 1] IN
        IF m.split /\ ~Less(item, inTree) /\ ~Less(inTree, item)
          THEN [c |-> Wrote([m.c EXCEPT !.heap[n].items[f.index + 1] = item,
                                  !.written = @ \cup {n}]),
                out |-> inTree]
          ELSE
            With(IF m.split /\ Less(inTree, item) THEN f.index + 1 ELSE f.index,
                 LAMBDA i :
            With(writableNode(m.c, m.c.heap[n].children[i + 1]), LAMBDA w :
              insert(Wrote([w.c EXCEPT !.heap[n].children[i + 1] = w.n,
                                 !.written = @ \cup {n}]), w.n, item,
                     maxItems))))))

\* get that looks at node n alone
getShallow(h, n, key) ==
  LET f == find(h[n].items, key) IN
  IF f.found THEN h[n].items[f.index + 1] ELSE nilItem

\* node.get
RECURSIVE get(_, _, _)
get(h, n, key) ==
  LET f == find(h[n].items, key) IN
  IF f.found THEN h[n].items[f.index + 1]
  ELSE IF Len(h[n].children) > 0 THEN get(h, h[n].children[f.index + 1], key)
  ELSE nilItem

\* min that does not walk down to the first leaf
minOfNode(h, n) ==
  IF n = 0 THEN nilItem
  ELSE IF Len(h[n].items) = 0 THEN nilItem
  ELSE h[n].items[1]

\* min
RECURSIVE min(_, _)
min(h, n) ==
  IF n = 0 THEN nilItem
  ELSE IF Len(h[n].children) > 0 THEN min(h, h[n].children[1])
  ELSE IF Len(h[n].items) = 0 THEN nilItem
  ELSE h[n].items[1]

\* max
RECURSIVE max(_, _)
max(h, n) ==
  IF n = 0 THEN nilItem
  ELSE IF Len(h[n].children) > 0 THEN max(h, h[n].children[Len(h[n].children)])
  ELSE IF Len(h[n].items) = 0 THEN nilItem
  ELSE h[n].items[Len(h[n].items)]


\* node.remove and node.growChildAndRemove
RECURSIVE remove(_, _, _, _, _)
RECURSIVE growChildAndRemove(_, _, _, _, _, _)
\* growChildAndRemove that goes into child i as it is
growChildAndRemoveUngrown(c, n, i, item, minItems, typ) ==
  With(writableNode(c, c.heap[n].children[i + 1]), LAMBDA w :
    remove(Note(Wrote([w.c EXCEPT !.heap[n].children[i + 1] = w.n,
                             !.written = @ \cup {n}]), "descend", n, i),
           w.n, item, minItems, typ))

\* node.remove that fills the slot of a found item with the minimum of the
\* child
removePromotingMin(c, n, item, minItems, typ) ==
  With(c.heap[n], LAMBDA nd :
  With(IF typ = removeItem THEN find(nd.items, item)
       ELSE [index |-> IF typ = removeMax THEN Len(nd.items) ELSE 0,
             found |-> FALSE], LAMBDA f :
    IF typ = removeMax /\ Len(nd.children) = 0
      THEN [c |-> Wrote([c EXCEPT !.heap[n].items = pop(@),
                            !.written = @ \cup {n}]),
            out |-> nd.items[Len(nd.items)]]
    ELSE IF typ = removeMin /\ Len(nd.children) = 0
      THEN [c |-> Wrote([c EXCEPT !.heap[n].items = removeAt(@, 0),
                            !.written = @ \cup {n}]),
            out |-> nd.items[1]]
    ELSE IF typ = removeItem /\ Len(nd.children) = 0
      THEN IF f.found
             THEN [c |-> Wrote([c EXCEPT !.heap[n].items = removeAt(@, f.index),
                                   !.written = @ \cup {n}]),
                   out |-> nd.items[f.index + 1]]
             ELSE [c |-> c, out |-> nilItem]
    ELSE IF Len(c.heap[nd.children[f.index + 1]].items) <= minItems
      THEN growChildAndRemove(c, n, f.index, item, minItems, typ)
    ELSE
      With(writableNode(c, nd.children[f.index + 1]), LAMBDA w :
      With(Wrote([w.c EXCEPT !.heap[n].children[f.index + 1] = w.n,
                       !.written = @ \cup {n}]), LAMBDA c1 :
        IF f.found
          THEN With(remove(Note(c1, "predecessor", n, f.index), w.n, nilItem,
                           minItems, removeMin), LAMBDA r :
                 [c |-> Wrote([r.c EXCEPT !.heap[n].items[f.index + 1] = r.out,
                                    !.written = @ \cup {n}]),
                  out |-> nd.items[f.index + 1]])
          ELSE remove(Note(c1, "descend", n, f.index), w.n, item, minItems,
                      typ)))))

remove(c, n, item, minItems, typ) ==
  With(c.heap[n], LAMBDA nd :
  With(IF typ = removeItem THEN find(nd.items, item)
       ELSE [index |-> IF typ = removeMax THEN Len(nd.items) ELSE 0,
             found |-> FALSE], LAMBDA f :
    IF typ = removeMax /\ Len(nd.children) = 0
      THEN [c |-> Wrote([c EXCEPT !.heap[n].items = pop(@),
                            !.written = @ \cup {n}]),
            out |-> nd.items[Len(nd.items)]]
    ELSE IF typ = removeMin /\ Len(nd.children) = 0
      THEN [c |-> Wrote([c EXCEPT !.heap[n].items = removeAt(@, 0),
                            !.written = @ \cup {n}]),
            out |-> nd.items[1]]
    ELSE IF typ = removeItem /\ Len(nd.children) = 0
      THEN IF f.found
             THEN [c |-> Wrote([c EXCEPT !.heap[n].items = removeAt(@, f.index),
                                   !.written = @ \cup {n}]),
                   out |-> nd.items[f.index + 1]]
             ELSE [c |-> c, out |-> nilItem]
    ELSE IF Len(c.heap[nd.children[f.index + 1]].items) <= minItems
      THEN growChildAndRemove(c, n, f.index, item, minItems, typ)
    ELSE
      \* child := c.writableNode(n.children[i]); n.children[i] = child
      With(writableNode(c, nd.children[f.index + 1]), LAMBDA w :
      With(Wrote([w.c EXCEPT !.heap[n].children[f.index + 1] = w.n,
                       !.written = @ \cup {n}]), LAMBDA c1 :
        IF f.found
          THEN With(remove(Note(c1, "predecessor", n, f.index), w.n, nilItem,
                           minItems, removeMax), LAMBDA r :
                 [c |-> Wrote([r.c EXCEPT !.heap[n].items[f.index + 1] = r.out,
                                    !.written = @ \cup {n}]),
                  out |-> nd.items[f.index + 1]])
          ELSE remove(Note(c1, "descend", n, f.index), w.n, item, minItems,
                      typ)))))

\* stealLeft that leaves the separator where it is
stealLeftKeepSeparator(c, n, i) ==
  With(writableNode(c, c.heap[n].children[i + 1]), LAMBDA w1 :
  With(Wrote([w1.c EXCEPT !.heap[n].children[i + 1] = w1.n,
                    !.written = @ \cup {n}]), LAMBDA c1 :
  With(writableNode(c1, c1.heap[n].children[i]), LAMBDA w2 :
  With(Wrote([w2.c EXCEPT !.heap[n].children[i] = w2.n,
                    !.written = @ \cup {n}]), LAMBDA c2 :
  With(Wrote([c2 EXCEPT
          !.heap[w2.n].items = pop(@),
          !.heap[w1.n].items = insertAt(@, 0, c2.heap[n].items[i]),
          !.written = @ \cup {w2.n, w1.n, n}]),
       LAMBDA c3 :
    IF Len(c3.heap[w2.n].children) > 0
      THEN Wrote([c3 EXCEPT
              !.heap[w2.n].children = pop(@),
              !.heap[w1.n].children =
                  insertAt(@, 0, c3.heap[w2.n].children[
                                     Len(c3.heap[w2.n].children)]),
              !.written = @ \cup {w2.n, w1.n}])
      ELSE c3)))))

\* growChildAndRemove, case 1: steal from the left child
stealLeft(c, n, i) ==
  With(writableNode(c, c.heap[n].children[i + 1]), LAMBDA w1 :
  With(Wrote([w1.c EXCEPT !.heap[n].children[i + 1] = w1.n,
                    !.written = @ \cup {n}]), LAMBDA c1 :
  With(writableNode(c1, c1.heap[n].children[i]), LAMBDA w2 :
  With(Wrote([w2.c EXCEPT !.heap[n].children[i] = w2.n,
                    !.written = @ \cup {n}]), LAMBDA c2 :
  With(Wrote([c2 EXCEPT
          !.heap[w2.n].items = pop(@),
          !.heap[w1.n].items = insertAt(@, 0, c2.heap[n].items[i]),
          !.heap[n].items[i] = c2.heap[w2.n].items[Len(c2.heap[w2.n].items)],
          !.written = @ \cup {w2.n, w1.n, n}]),
       LAMBDA c3 :
    IF Len(c3.heap[w2.n].children) > 0
      THEN Wrote([c3 EXCEPT
              !.heap[w2.n].children = pop(@),
              !.heap[w1.n].children =
                  insertAt(@, 0, c3.heap[w2.n].children[
                                     Len(c3.heap[w2.n].children)]),
              !.written = @ \cup {w2.n, w1.n}])
      ELSE c3)))))

\* growChildAndRemove, case 2: steal from the right child
stealRight(c, n, i) ==
  With(writableNode(c, c.heap[n].children[i + 1]), LAMBDA w1 :
  With(Wrote([w1.c EXCEPT !.heap[n].children[i + 1] = w1.n,
                    !.written = @ \cup {n}]), LAMBDA c1 :
  With(writableNode(c1, c1.heap[n].children[i + 2]), LAMBDA w2 :
  With(Wrote([w2.c EXCEPT !.heap[n].children[i + 2] = w2.n,
                    !.written = @ \cup {n}]), LAMBDA c2 :
  With(Wrote([c2 EXCEPT
          !.heap[w2.n].items = removeAt(@, 0),
          !.heap[w1.n].items = Append(@, c2.heap[n].items[i + 1]),
          !.heap[n].items[i + 1] = c2.heap[w2.n].items[1],
          !.written = @ \cup {w2.n, w1.n, n}]),
       LAMBDA c3 :
    IF Len(c3.heap[w2.n].children) > 0
      THEN Wrote([c3 EXCEPT
              !.heap[w2.n].children = removeAt(@, 0),
              !.heap[w1.n].children = Append(@, c3.heap[w2.n].children[1]),
              !.written = @ \cup {w2.n, w1.n}])
      ELSE c3)))))

\* merge that leaves the nodes as they are
mergeNothing(c, n, i) == c

\* growChildAndRemove, case 3: merge child i with its right sibling
merge(c, n, i) ==
  With(writableNode(c, c.heap[n].children[i + 1]), LAMBDA w1 :
  With(Wrote([w1.c EXCEPT !.heap[n].children[i + 1] = w1.n,
                    !.written = @ \cup {n}]), LAMBDA c1 :
  With(c1.heap[n].children[i + 2], LAMBDA mergeChild :
    freeNode(Wrote([c1 EXCEPT
                !.heap[n].items = removeAt(@, i),
                !.heap[n].children = removeAt(@, i + 1),
                !.heap[w1.n].items =
                    Append(@, c1.heap[n].items[i + 1])
                      \o c1.heap[mergeChild].items,
                !.heap[w1.n].children = @ \o c1.heap[mergeChild].children,
                !.written = @ \cup {n, w1.n}]),
             mergeChild))))

\* growChildAndRemove up to its last statement: the one step that grows
\* child i
growChild(c0, n, i, minItems) ==
  With(Note(c0, "growChildAndRemove", n, i), LAMBDA c :
    IF i > 0 /\ Len(c.heap[c.heap[n].children[i]].items) > minItems
      THEN stealLeft(Note(c, "stealLeft", n, i), n, i)
    ELSE IF i < Len(c.heap[n].items)
            /\ Len(c.heap[c.heap[n].children[i + 2]].items) > minItems
      THEN stealRight(Note(c, "stealRight", n, i), n, i)
    ELSE With(IF i >= Len(c.heap[n].items) THEN i - 1 ELSE i, LAMBDA j :
           merge(Note(c, "merge", n, j), n, j)))

growChildAndRemove(c0, n, i, item, minItems, typ) ==
  With(growChild(c0, n, i, minItems), LAMBDA c1 :
    remove(Note(c1, "retry", n, i), n, item, minItems, typ))

ascend == 1
descend == -1

\* node.iterate.  The callback iter appends the item it is given to `out`
\* and returns FALSE on the item whose key is `until` (never when until = 0).
\* start and stop are nilItem for Go's nil.  The result is (hit, ok) and the
\* items the callback received so far.
RECURSIVE iterate(_, _, _, _, _, _, _, _, _)
RECURSIVE ascendLoop(_, _, _, _, _, _, _, _, _)
RECURSIVE descendLoop(_, _, _, _, _, _, _, _, _)
iterate(h, n, dir, start, stop, includeStart, hit, until, out) ==
  IF dir = ascend
    THEN ascendLoop(h, n, 0, start, stop, includeStart, hit, until, out)
    ELSE descendLoop(h, n, Len(h[n].items) - 1, start, stop, includeStart, hit,
                     until, out)

\* node.iterate's ascending loop going on after a child's traversal was stopped
\* by the callback
RECURSIVE ascendLoopOn(_, _, _, _, _, _, _, _, _)
ascendLoopOn(h, n, i, start, stop, includeStart, hit, until, out) ==
  LET nd == h[n] IN
  IF i < Len(nd.items)
    THEN
      IF start # nilItem /\ Less(nd.items[i + 1], start)
        THEN ascendLoopOn(h, n, i + 1, start, stop, includeStart, hit, until, out)
        ELSE
          LET r == IF Len(nd.children) > 0
                     THEN iterate(h, nd.children[i + 1], ascend, start, stop,
                                  includeStart, hit, until, out)
                     ELSE [hit |-> hit, ok |-> TRUE, out |-> out] IN
          IF ~includeStart /\ ~r.hit /\ start # nilItem
             /\ ~Less(start, nd.items[i + 1])
            THEN ascendLoopOn(h, n, i + 1, start, stop, includeStart, TRUE, until,
                              r.out)
          ELSE IF stop # nilItem /\ ~Less(nd.items[i + 1], stop)
            THEN [hit |-> TRUE, ok |-> FALSE, out |-> r.out]
          ELSE IF nd.items[i + 1][1] = until
            THEN [hit |-> TRUE, ok |-> FALSE, out |-> Append(r.out, nd.items[i + 1])]
          ELSE ascendLoopOn(h, n, i + 1, start, stop, includeStart, TRUE, until,
                            Append(r.out, nd.items[i + 1]))
    ELSE
      IF Len(nd.children) > 0
        THEN iterate(h, nd.children[Len(nd.children)], ascend, start, stop,
                     includeStart, hit, until, out)
        ELSE [hit |-> hit, ok |-> TRUE, out |-> out]

ascendLoop(h, n, i, start, stop, includeStart, hit, until, out) ==
  LET nd == h[n] IN
  IF i < Len(nd.items)
    THEN
      IF start # nilItem /\ Less(nd.items[i + 1], start)
        THEN ascendLoop(h, n, i + 1, start, stop, includeStart, hit, until, out)
        ELSE
          LET r == IF Len(nd.children) > 0
                     THEN iterate(h, nd.children[i + 1], ascend, start, stop,
                                  includeStart, hit, until, out)
                     ELSE [hit |-> hit, ok |-> TRUE, out |-> out] IN
          IF ~r.ok THEN [hit |-> r.hit, ok |-> FALSE, out |-> r.out]
          ELSE IF ~includeStart /\ ~r.hit /\ start # nilItem
                  /\ ~Less(start, nd.items[i + 1])
            THEN ascendLoop(h, n, i + 1, start, stop, includeStart, TRUE, until,
                            r.out)
          ELSE IF stop # nilItem /\ ~Less(nd.items[i + 1], stop)
            THEN [hit |-> TRUE, ok |-> FALSE, out |-> r.out]
          ELSE IF nd.items[i + 1][1] = until
            THEN [hit |-> TRUE, ok |-> FALSE, out |-> Append(r.out, nd.items[i + 1])]
          ELSE ascendLoop(h, n, i + 1, start, stop, includeStart, TRUE, until,
                          Append(r.out, nd.items[i + 1]))
    ELSE
      IF Len(nd.children) > 0
        THEN iterate(h, nd.children[Len(nd.children)], ascend, start, stop,
                     includeStart, hit, until, out)
        ELSE [hit |-> hit, ok |-> TRUE, out |-> out]

descendLoop(h, n, i, start, stop, includeStart, hit, until, out) ==
  LET nd == h[n] IN
  IF i >= 0
    THEN
      IF start # nilItem /\ ~Less(nd.items[i + 1], start)
         /\ (~includeStart \/ hit \/ Less(start, nd.items[i + 1]))
        THEN descendLoop(h, n, i - 1, start, stop, includeStart, hit, until, out)
        ELSE
          LET r == IF Len(nd.children) > 0
                     THEN iterate(h, nd.children[i + 2], descend, start, stop,
                                  includeStart, hit, until, out)
                     ELSE [hit |-> hit, ok |-> TRUE, out |-> out] IN
          IF ~r.ok THEN [hit |-> r.hit, ok |-> FALSE, out |-> r.out]
          ELSE IF stop # nilItem /\ ~Less(stop, nd.items[i + 1])
            THEN [hit |-> r.hit, ok |-> FALSE, out |-> r.out]
          ELSE IF nd.items[i + 1][1] = until
            THEN [hit |-> TRUE, ok |-> FALSE, out |-> Append(r.out, nd.items[i + 1])]
          ELSE descendLoop(h, n, i - 1, start, stop, includeStart, TRUE, until,
                           Append(r.out, nd.items[i + 1]))
    ELSE
      IF Len(nd.children) > 0
        THEN iterate(h, nd.children[1], descend, start, stop, includeStart, hit,
                     until, out)
        ELSE [hit |-> hit, ok |-> TRUE, out |-> out]

\* maxItems allowing one item more
maxItemsEven(tr) == tr.degree * 2

\* ImmutableBTree.maxItems, ImmutableBTree.minItems
maxItems(tr) == tr.degree * 2 - 1
minItems(tr) == tr.degree - 1

\* ImmutableBTree.replaceOrInsert on the tree struct t
replaceOrInsert(c, t, item) ==
  IF item = nilItem THEN [c |-> c, out |-> nilItem, panic |-> TRUE]
  ELSE IF c.trees[t].root = 0
    THEN With(newNode(c), LAMBDA r :
           [c |-> Wrote([r.c EXCEPT !.trees[t].root = r.n,
                              !.heap[r.n].items = Append(@, item),
                              !.trees[t].length = @ + 1,
                              !.written = @ \cup {r.n},
                              !.assigned = @ \cup {t}]),
            out |-> nilItem, panic |-> FALSE])
  ELSE
    With(IF Len(c.heap[c.trees[t].root].items) >= maxItems(c.trees[t])
           THEN With(writableNode(c, c.trees[t].root), LAMBDA oldroot :
                With(split(oldroot.c, oldroot.n, maxItems(c.trees[t]) \div 2),
                     LAMBDA sp :
                With(newNode(sp.c), LAMBDA r :
                  Wrote([r.c EXCEPT
                     !.trees[t].root = r.n,
                     !.heap[r.n].items = Append(@, sp.item),
                     !.heap[r.n].children = @ \o <<oldroot.n, sp.next>>,
                     !.written = @ \cup {r.n},
                     !.assigned = @ \cup {t}]))))
           ELSE c, LAMBDA c3 :
    With(writableNode(c3, c3.trees[t].root), LAMBDA w :
    With(insert(Wrote([w.c EXCEPT !.trees[t].root = w.n,
                            !.assigned = @ \cup {t}]), w.n, item,
                maxItems(c.trees[t])), LAMBDA ins :
      [c |-> IF ins.out = nilItem
               THEN Wrote([ins.c EXCEPT !.trees[t].length = @ + 1,
                                  !.assigned = @ \cup {t}]) ELSE ins.c,
       out |-> ins.out, panic |-> FALSE])))

\* deleteItem that leaves an emptied root in place
deleteItemKeepRoot(c, t, item, typ) ==
  IF c.trees[t].root = 0 \/ Len(c.heap[c.trees[t].root].items) = 0
    THEN [c |-> c, out |-> nilItem]
  ELSE
    With(writableNode(c, c.trees[t].root), LAMBDA w :
    With(remove(Wrote([w.c EXCEPT !.trees[t].root = w.n,
                            !.assigned = @ \cup {t}]), w.n, item,
                minItems(c.trees[t]), typ), LAMBDA r :
      [c |-> IF r.out # nilItem THEN Wrote([r.c EXCEPT !.trees[t].length = @ - 1,
                                                 !.assigned = @ \cup {t}]) ELSE r.c,
       out |-> r.out]))

\* deleteItem that forgets to count the removed item
deleteItemKeepLength(c, t, item, typ) ==
  IF c.trees[t].root = 0 \/ Len(c.heap[c.trees[t].root].items) = 0
    THEN [c |-> c, out |-> nilItem]
  ELSE
    With(writableNode(c, c.trees[t].root), LAMBDA w :
    With(remove(Wrote([w.c EXCEPT !.trees[t].root = w.n,
                            !.assigned = @ \cup {t}]), w.n, item,
                minItems(c.trees[t]), typ), LAMBDA r :
    With(IF Len(r.c.heap[w.n].items) = 0 /\ Len(r.c.heap[w.n].children) > 0
           THEN freeNode(Wrote([r.c EXCEPT !.trees[t].root = r.c.heap[w.n].children[1],
                                     !.assigned = @ \cup {t}]),
                         w.n)
           ELSE r.c, LAMBDA c2 :
      [c |-> c2,
       out |-> r.out])))

\* ImmutableBTree.deleteItem on the tree struct t
deleteItem(c, t, item, typ) ==
  IF c.trees[t].root = 0 \/ Len(c.heap[c.trees[t].root].items) = 0
    THEN [c |-> c, out |-> nilItem]
  ELSE
    With(writableNode(c, c.trees[t].root), LAMBDA w :
    With(remove(Wrote([w.c EXCEPT !.trees[t].root = w.n,
                            !.assigned = @ \cup {t}]), w.n, item,
                minItems(c.trees[t]), typ), LAMBDA r :
    With(IF Len(r.c.heap[w.n].items) = 0 /\ Len(r.c.heap[w.n].children) > 0
           THEN freeNode(Wrote([r.c EXCEPT !.trees[t].root = r.c.heap[w.n].children[1],
                                     !.assigned = @ \cup {t}]),
                         w.n)
           ELSE r.c, LAMBDA c2 :
      [c |-> IF r.out # nilItem THEN Wrote([c2 EXCEPT !.trees[t].length = @ - 1,
                                                !.assigned = @ \cup {t}]) ELSE c2,
       out |-> r.out])))

\* ImmutableBTree.Ascend / Descend / Get / Min / Max / Has / Len, as the
\* values they deliver for tree struct t of the objects (h, ts)
Ascend(h, ts, t) ==
  IF ts[t].root = 0 THEN <<>>
  ELSE iterate(h, ts[t].root, ascend, nilItem, nilItem, FALSE, FALSE, 0, <<>>).out

\* Descend delivering in Ascend's order
DescendForward(h, ts, t) == Ascend(h, ts, t)

Descend(h, ts, t) ==
  IF ts[t].root = 0 THEN <<>>
  ELSE iterate(h, ts[t].root, descend, nilItem, nilItem, FALSE, FALSE, 0, <<>>).out

Get(h, ts, t, key) == IF ts[t].root = 0 THEN nilItem ELSE get(h, ts[t].root, key)

Min(h, ts, t) == min(h, ts[t].root)

Max(h, ts, t) == max(h, ts[t].root)

Has(h, ts, t, key) == Get(h, ts, t, key) # nilItem

LenOf(ts, t) == ts[t].length


\* ImmutableBTree.AscendRange / AscendLessThan / AscendGreaterOrEqual /
\* DescendRange / DescendLessOrEqual / DescendGreaterThan: the items the
\* iterator receives, an iterator that returns FALSE on the item with key
\* `until` (0: one that always returns TRUE)
AscendRange(h, ts, t, greaterOrEqual, lessThan, until) ==
  IF ts[t].root = 0 THEN <<>>
  ELSE iterate(h, ts[t].root, ascend, greaterOrEqual, lessThan, TRUE, FALSE,
               until, <<>>).out

AscendLessThan(h, ts, t, pivot, until) ==
  IF ts[t].root = 0 THEN <<>>
  ELSE iterate(h, ts[t].root, ascend, nilItem, pivot, FALSE, FALSE, until,
               <<>>).out

AscendGreaterOrEqual(h, ts, t, pivot, until) ==
  IF ts[t].root = 0 THEN <<>>
  ELSE iterate(h, ts[t].root, ascend, pivot, nilItem, TRUE, FALSE, until,
               <<>>).out

\* DescendRange with its two bounds passed to iterate the other way round
DescendRangeSwapped(h, ts, t, lessOrEqual, greaterThan, until) ==
  IF ts[t].root = 0 THEN <<>>
  ELSE iterate(h, ts[t].root, descend, greaterThan, lessOrEqual, TRUE, FALSE,
               until, <<>>).out

DescendRange(h, ts, t, lessOrEqual, greaterThan, until) ==
  IF ts[t].root = 0 THEN <<>>
  ELSE iterate(h, ts[t].root, descend, lessOrEqual, greaterThan, TRUE, FALSE,
               until, <<>>).out

DescendLessOrEqual(h, ts, t, pivot, until) ==
  IF ts[t].root = 0 THEN <<>>
  ELSE iterate(h, ts[t].root, descend, pivot, nilItem, TRUE, FALSE, until,
               <<>>).out

DescendGreaterThan(h, ts, t, pivot, until) ==
  IF ts[t].root = 0 THEN <<>>
  ELSE iterate(h, ts[t].root, descend, nilItem, pivot, FALSE, FALSE, until,
               <<>>).out

\* ImmutableBTree.Ascend / Descend with an iterator that stops on `until`
AscendUntil(h, ts, t, until) ==
  IF ts[t].root = 0 THEN <<>>
  ELSE iterate(h, ts[t].root, ascend, nilItem, nilItem, FALSE, FALSE, until,
               <<>>).out

DescendUntil(h, ts, t, until) ==
  IF ts[t].root = 0 THEN <<>>
  ELSE iterate(h, ts[t].root, descend, nilItem, nilItem, FALSE, FALSE, until,
               <<>>).out


\* --------------------------------------------------------- object identity
\* A pointer's value is not observable, only which pointers are equal.  After
\* every call the objects are renumbered in the order a depth-first walk from
\* the program's variables finds them, and objects no pointer reaches are
\* dropped (garbage).

RECURSIVE Dfs(_, _, _, _)
Dfs(h, stack, order, seen) ==
  IF stack = <<>> THEN order
  ELSE LET n == Head(stack) IN
       IF n = 0 \/ n \in seen THEN Dfs(h, Tail(stack), order, seen)
       ELSE Dfs(h, h[n].children \o Tail(stack), Append(order, n), seen \cup {n})

RECURSIVE Distinct(_, _)
Distinct(s, acc) ==
  IF s = <<>> THEN acc
  ELSE Distinct(Tail(s), IF Head(s) = 0 \/ \E i \in 1..Len(acc) : acc[i] = Head(s)
                           THEN acc ELSE Append(acc, Head(s)))

RECURSIVE Flatten(_)
Flatten(ss) == IF ss = <<>> THEN <<>> ELSE Head(ss) \o Flatten(Tail(ss))

\* The new identity of each of the objects 1..n listed in `order` (0: dropped)
Rank(order, n) ==
  [x \in 0..n |-> IF \E i \in 1..Len(order) : order[i] = x
                    THEN CHOOSE i \in 1..Len(order) : order[i] = x ELSE 0]

\* The tree pointers the program holds, in a fixed order.
TreeRefs(bt, bs, sn) ==
  <<bt.tree>> \o [b \in 1..Len(bs) |-> bs[b].tree] \o sn

\* The renumbering of the objects (h, ts, ps) as seen from the pointers
\* treeRefs: the old identities in their new order, and the maps to the new.
Order(h, ts, ps, treeRefs) ==
  LET tord == Distinct(treeRefs, <<>>)
      roots == [i \in 1..Len(tord) |-> ts[tord[i]].root]
      pooled == Flatten([p \in 1..Len(ps) |-> ps[p].freelist])
      nord == Dfs(h, roots \o pooled, <<>>, {}) IN
  [tree |-> tord, node |-> nord,
   trank |-> Rank(tord, Len(ts)), nrank |-> Rank(nord, Len(h))]

CanonNode(nd, o) ==
  LET m == [nd EXCEPT !.children = [j \in 1..Len(@) |-> o.nrank[@[j]]]] IN
  IF "t" \in DOMAIN nd THEN [m EXCEPT !.t = o.trank[@]] ELSE m

CanonHeap(h, o) == [i \in 1..Len(o.node) |-> CanonNode(h[o.node[i]], o)]

CanonTrees(ts, o) ==
  [i \in 1..Len(o.tree) |-> [ts[o.tree[i]] EXCEPT !.root = o.nrank[@]]]

CanonPools(ps, o) ==
  [p \in 1..Len(ps) |->
     [ps[p] EXCEPT !.freelist = [j \in 1..Len(@) |-> o.nrank[@[j]]]]]

CanonSet(S, o) == {o.nrank[n] : n \in S} \ {0}

\* A BTree or Builder struct with its pointers renumbered
CanonObj(x, o) ==
  [x EXCEPT !.tree = o.trank[@], !.writables = CanonSet(@, o)]

\* The context record of a call made through object x (a BTree or a Builder)
Context(x) ==
  [heap |-> heap, trees |-> trees, pools |-> pools,
   writables |-> x.writables, tracking |-> x.tracking, freelist |-> x.freelist,
   written |-> {}, assigned |-> {}, log |-> <<>>]

\* ---------------------------------------------------- the reference model
Keys == 1..MaxKey
Items == ItemsUpTo(MaxKey)
Degrees == 2..MaxDegree

\* The reference map after ReplaceOrInsert(item) and after deleting key k
RefInsert(R, item) == {x \in R : x[1] # item[1]} \cup {item}
RefDelete(R, k) == {x \in R : x[1] # k}
RefGet(R, k) == IF \E x \in R : x[1] = k THEN CHOOSE x \in R : x[1] = k ELSE nilItem
RefKeys(R) == {x[1] : x \in R}
RefMin(R) == IF R = {} THEN nilItem ELSE CHOOSE x \in R : \A y \in R : x[1] <= y[1]
RefMax(R) == IF R = {} THEN nilItem ELSE CHOOSE x \in R : \A y \in R : x[1] >= y[1]

\* The items of R in increasing key order
RECURSIVE SortedSeq(_)
SortedSeq(R) == IF R = {} THEN <<>> ELSE <<RefMin(R)>> \o SortedSeq(R \ {RefMin(R)})

Reverse(s) == [i \in 1..Len(s) |-> s[Len(s) + 1 - i]]

\* ---------------------------------------------------------- node structure
\* The nodes reachable from root, each once
Reach(h, root) == IF root = 0 THEN <<>> ELSE Dfs(h, <<root>>, <<>>, {})

\* The nodes reachable from root form a tree: no node is the child of two
\* nodes or twice the child of one, and the root is nobody's child.
TreeShaped(h, root) ==
  LET r == Reach(h, root)
      edges == Flatten([i \in 1..Len(r) |-> h[r[i]].children]) IN
  \A i \in 1..Len(edges) :
    /\ edges[i] # root
    /\ \A j \in 1..Len(edges) : i # j => edges[i] # edges[j]

\* The keys of the items in the subtree of n (a tree-shaped one)
RECURSIVE keysUnder(_, _)
keysUnder(h, n) ==
  {h[n].items[i][1] : i \in 1..Len(h[n].items)}
    \cup UNION {keysUnder(h, h[n].children[j]) : j \in 1..Len(h[n].children)}

\* The node structure documented for node: items and children of one node
NodeShape(h, n, degree, isRoot) ==
  LET items == h[n].items
      children == h[n].children IN
  /\ Len(items) <= 2 * degree - 1
  /\ isRoot \/ Len(items) >= degree - 1
  /\ Len(children) = 0 \/ Len(children) = Len(items) + 1
  /\ \A i \in 1..Len(items) - 1 : Less(items[i], items[i + 1])
  /\ Len(children) = Len(items) + 1 =>
       \A i \in 1..Len(items) :
         /\ \A k \in keysUnder(h, children[i]) : k < items[i][1]
         /\ \A k \in keysUnder(h, children[i + 1]) : items[i][1] < k

\* Every node reachable from root has the node structure.
TreeStructure(h, root, degree) ==
  /\ TreeShaped(h, root)
  /\ \A n \in {Reach(h, root)[i] : i \in 1..Len(Reach(h, root))} :
       NodeShape(h, n, degree, n = root)

\* ---------------------------------------------------------------- BTree
\* New(degree): NewWithFreeList(degree, NewFreeList(DefaultFreeListSize))
InitBTree ==
  /\ impl = "BTree"
  /\ heap = <<>>
  /\ \E d \in Degrees : trees = <<[degree |-> d, length |-> 0, root |-> 0]>>
  /\ pools = <<[freelist |-> <<>>, cap |-> DefaultFreeListSize]>>
  /\ btree = [tree |-> 1, writables |-> {}, tracking |-> FALSE, freelist |-> 1]
  /\ builders = <<>>
  /\ snaps = <<>>
  /\ panicked = FALSE
  /\ calls = <<>>
  /\ ref = [cur |-> <<{}>>, snap |-> <<>>]

\* The state after a call that left the objects as in c, the BTree struct as
\* bt, the Builder structs as bs and the caller's snapshots as sn
Returns(c, bt, bs, sn) ==
  LET o == Order(c.heap, c.trees, c.pools, TreeRefs(bt, bs, sn)) IN
  /\ heap' = CanonHeap(c.heap, o)
  /\ trees' = CanonTrees(c.trees, o)
  /\ pools' = CanonPools(c.pools, o)
  /\ btree' = CanonObj(bt, o)
  /\ builders' = [b \in 1..Len(bs) |-> CanonObj(bs[b], o)]
  /\ snaps' = [i \in 1..Len(sn) |-> o.trank[sn[i]]]
  /\ UNCHANGED impl

BTreeReturns(c) ==
  /\ Returns(c, [btree EXCEPT !.writables = c.writables], builders, snaps)
  /\ UNCHANGED <<panicked, calls>>

\* BTree.ReplaceOrInsert
BTree_ReplaceOrInsert(item) ==
  /\ impl = "BTree"
  /\ LET r == replaceOrInsert(Context(btree), btree.tree, item) IN
     /\ BTreeReturns(r.c)
     /\ ref' = [ref EXCEPT !.cur[1] = RefInsert(@, item)]

\* BTree.Delete
BTree_Delete(item) ==
  /\ impl = "BTree"
  /\ LET r == deleteItem(Context(btree), btree.tree, item, removeItem) IN
     /\ BTreeReturns(r.c)
     /\ ref' = [ref EXCEPT !.cur[1] = RefDelete(@, item[1])]

\* BTree.DeleteMin
BTree_DeleteMin ==
  /\ impl = "BTree"
  /\ LET r == deleteItem(Context(btree), btree.tree, nilItem, removeMin) IN
     /\ BTreeReturns(r.c)
     /\ ref' = [ref EXCEPT !.cur[1] = RefDelete(@, RefMin(@)[1])]

\* BTree.DeleteMax
BTree_DeleteMax ==
  /\ impl = "BTree"
  /\ LET r == deleteItem(Context(btree), btree.tree, nilItem, removeMax) IN
     /\ BTreeReturns(r.c)
     /\ ref' = [ref EXCEPT !.cur[1] = RefDelete(@, RefMax(@)[1])]

NextBTree ==
  \/ \E item \in Items : BTree_ReplaceOrInsert(item)
  \/ \E item \in Items : BTree_Delete(item)
  \/ BTree_DeleteMin
  \/ BTree_DeleteMax

SpecBTree == InitBTree /\ [][NextBTree]_vars


\* -------------------------------------------------------------- Builder
KeysB == 1..MaxKeyB
ItemsB == ItemsUpTo(MaxKeyB)

\* NewFreeList(DefaultFreeListSize)
NewFreeList(size) == [freelist |-> <<>>, cap |-> size]

\* Set that enables tracking by the length of the tree
SetByLength(x, ts, tree) ==
  [x EXCEPT !.tree = tree,
            !.copied = FALSE,
            !.tracking = (ts[tree].length # 0),
            !.writables = {}]

\* Set that keeps the writable set of the Builder
SetKeepWritables(x, ts, tree) ==
  [x EXCEPT !.tree = tree,
            !.copied = FALSE,
            !.tracking = (ts[tree].root # 0)]

\* Builder.Set on the Builder struct x, with the tree structs ts
Set(x, ts, tree) ==
  [x EXCEPT !.tree = tree,
            !.copied = FALSE,
            !.tracking = (ts[tree].root # 0),   \* shared() / unShared()
            !.writables = {}]

\* NewBuilder(tree), with its free list at pools[p]
NewBuilder(ts, tree, p) ==
  Set([copied |-> FALSE, tree |-> 0, writables |-> {}, tracking |-> FALSE,
       freelist |-> p], ts, tree)

\* writableBTree copying the degree of the tree alone
writableBTreeEmpty(x, ts) ==
  [x |-> [x EXCEPT !.copied = TRUE, !.tree = Len(ts) + 1],
   trees |-> Append(ts, [ts[x.tree] EXCEPT !.root = 0, !.length = 0])]

\* Builder.writableBTree: the Builder struct and the tree structs after it
writableBTree(x, ts) ==
  IF ~x.copied
    THEN [x |-> [x EXCEPT !.copied = TRUE, !.tree = Len(ts) + 1],
          trees |-> Append(ts, ts[x.tree])]
    ELSE [x |-> x, trees |-> ts]

\* The program starts with t := NewImmutable(d) and b := NewBuilder(t).
InitBuilder ==
  /\ impl = "Builder"
  /\ heap = <<>>
  /\ \E d \in Degrees : trees = <<[degree |-> d, length |-> 0, root |-> 0]>>
  /\ pools = <<NewFreeList(DefaultFreeListSize)>>
  /\ btree = [tree |-> 0, writables |-> {}, tracking |-> FALSE, freelist |-> 0]
  /\ builders = <<NewBuilder(trees, 1, 1)>>
  /\ snaps = <<>>
  /\ panicked = FALSE
  /\ calls = <<>>
  /\ ref = [cur |-> <<{}>>, snap |-> <<>>]

\* The state after a mutating call through Builder b: wb is the result of
\* writableBTree and c the objects the call left
BuilderReturns(b, wb, c) ==
  /\ Returns(c, btree,
             [builders EXCEPT ![b] = [wb.x EXCEPT !.writables = c.writables]],
             snaps)
  /\ UNCHANGED <<panicked, calls>>

BuilderContext(wb) ==
  [heap |-> heap, trees |-> wb.trees, pools |-> pools,
   writables |-> wb.x.writables, tracking |-> wb.x.tracking,
   freelist |-> wb.x.freelist,
   written |-> {}, assigned |-> {}, log |-> <<>>]

\* Builder.ReplaceOrInsert
Builder_ReplaceOrInsert(b, item) ==
  /\ impl = "Builder"
  /\ LET wb == writableBTree(builders[b], trees)
         r == replaceOrInsert(BuilderContext(wb), wb.x.tree, item) IN
     /\ BuilderReturns(b, wb, r.c)
     /\ ref' = [ref EXCEPT !.cur[b] = RefInsert(@, item)]

\* Builder.Delete
Builder_Delete(b, item) ==
  /\ impl = "Builder"
  /\ LET wb == writableBTree(builders[b], trees)
         r == deleteItem(BuilderContext(wb), wb.x.tree, item, removeItem) IN
     /\ BuilderReturns(b, wb, r.c)
     /\ ref' = [ref EXCEPT !.cur[b] = RefDelete(@, item[1])]

\* Builder.DeleteMin
Builder_DeleteMin(b) ==
  /\ impl = "Builder"
  /\ LET wb == writableBTree(builders[b], trees)
         r == deleteItem(BuilderContext(wb), wb.x.tree, nilItem, removeMin) IN
     /\ BuilderReturns(b, wb, r.c)
     /\ ref' = [ref EXCEPT !.cur[b] = RefDelete(@, RefMin(@)[1])]

\* Builder.DeleteMax
Builder_DeleteMax(b) ==
  /\ impl = "Builder"
  /\ LET wb == writableBTree(builders[b], trees)
         r == deleteItem(BuilderContext(wb), wb.x.tree, nilItem, removeMax) IN
     /\ BuilderReturns(b, wb, r.c)
     /\ ref' = [ref EXCEPT !.cur[b] = RefDelete(@, RefMax(@)[1])]

\* The caller keeps the MaxSnaps most recent snapshots.
Keep(sn, x) ==
  IF Len(sn) < MaxSnaps THEN Append(sn, x) ELSE Append(Tail(sn), x)

\* Builder.Build; the caller keeps the snapshot returned
Builder_Build(b) ==
  /\ impl = "Builder"
  /\ LET result == builders[b].tree
         x == Set(builders[b], trees, result) IN
     /\ Returns([heap |-> heap, trees |-> trees, pools |-> pools],
                btree, [builders EXCEPT ![b] = x], Keep(snaps, result))
     /\ ref' = [ref EXCEPT !.snap = Keep(@, ref.cur[b])]
     /\ UNCHANGED <<panicked, calls>>

\* Builder.Set with one of the caller's snapshots
Builder_Set(b, i) ==
  /\ impl = "Builder"
  /\ i \in 1..Len(snaps)
  /\ Returns([heap |-> heap, trees |-> trees, pools |-> pools],
             btree, [builders EXCEPT ![b] = Set(@, trees, snaps[i])], snaps)
  /\ ref' = [ref EXCEPT !.cur[b] = ref.snap[i]]
  /\ UNCHANGED <<panicked, calls>>

NextBuilder ==
  \/ \E b \in 1..Len(builders), item \in ItemsB : Builder_ReplaceOrInsert(b, item)
  \/ \E b \in 1..Len(builders), item \in ItemsB : Builder_Delete(b, item)
  \/ \E b \in 1..Len(builders) : Builder_DeleteMin(b)
  \/ \E b \in 1..Len(builders) : Builder_DeleteMax(b)
  \/ \E b \in 1..Len(builders) : Builder_Build(b)
  \/ \E b \in 1..Len(builders), i \in 1..MaxSnaps : Builder_Set(b, i)

SpecBuilder == InitBuilder /\ [][NextBuilder]_vars


\* ------------------------------------ generic implementation (btree_generic.go)
\* A node[T] is [items, children, t]; t is the tree that owns it (0: nil).  A
\* BTreeG struct is [degree, length, root, freelist].  The operators take and
\* return the objects as a record c = [heap, trees, pools, panic] and run the
\* statements of the source one after the other, so that two pointers to the
\* same node behave as they do in Go.  An index out of range or a nil
\* dereference sets c.panic and ends the call where it stands.

emptyNodeG == [items |-> <<>>, children |-> <<>>, t |-> 0]

Fail(c) == [c |-> [c EXCEPT !.panic = TRUE], out |-> nilItem, found |-> FALSE]

\* One more recursive call
Deeper(c) == [c EXCEPT !.fuel = @ - 1]

SetItems(c, n, v) == Wrote([c EXCEPT !.heap[n].items = v])
SetChildren(c, n, v) == Wrote([c EXCEPT !.heap[n].children = v])

\* FreeListG.newNode, on pool f
FreeListG_newNode(c, f) ==
  LET fl == c.pools[f].freelist
      index == Len(c.pools[f].freelist) - 1 IN
  IF index < 0
    THEN [c |-> [c EXCEPT !.heap = Append(@, emptyNodeG)], n |-> Len(c.heap) + 1]
    ELSE [c |-> [c EXCEPT !.pools[f].freelist = SubSeq(fl, 1, index)],
          n |-> fl[index + 1]]

\* FreeListG.freeNode, on pool f
FreeListG_freeNode(c, f, n) ==
  IF Len(c.pools[f].freelist) < c.pools[f].cap
    THEN [c EXCEPT !.pools[f].freelist = Append(@, n)]
    ELSE c

\* BTreeG.newNode
BTreeG_newNode(c, t) ==
  With(FreeListG_newNode(c, c.trees[t].freelist), LAMBDA r :
    [c |-> Wrote([r.c EXCEPT !.heap[r.n].t = t]), n |-> r.n])

\* BTreeG.freeNode
BTreeG_freeNode(c, t, n) ==
  FreeListG_freeNode(Wrote([c EXCEPT !.heap[n].items = truncate(@, 0),
                               !.heap[n].children = truncate(@, 0),
                               !.heap[n].t = 0]),
                     c.trees[t].freelist, n)

\* node[T].split
splitG(c, n, i) ==
  IF i >= Len(c.heap[n].items) \/ c.heap[n].t = 0
    THEN [c |-> [c EXCEPT !.panic = TRUE], item |-> nilItem, next |-> 0]
  ELSE
    With(BTreeG_newNode(Note(c, "split", n, i), c.heap[n].t), LAMBDA r :
    With(SetItems(r.c, r.n, r.c.heap[r.n].items \o From(r.c.heap[n].items, i + 1)),
         LAMBDA c1 :
    With(SetItems(c1, n, truncate(c1.heap[n].items, i)), LAMBDA c2 :
      IF Len(c2.heap[n].children) > 0
        THEN
          IF i + 1 > Len(c2.heap[n].children)
            THEN [c |-> [c2 EXCEPT !.panic = TRUE],
                  item |-> c.heap[n].items[i + 1], next |-> r.n]
            ELSE
              With(SetChildren(c2, r.n, c2.heap[r.n].children
                                          \o From(c2.heap[n].children, i + 1)),
                   LAMBDA c3 :
                [c |-> SetChildren(c3, n, truncate(c3.heap[n].children, i + 1)),
                 item |-> c.heap[n].items[i + 1], next |-> r.n])
        ELSE [c |-> c2, item |-> c.heap[n].items[i + 1], next |-> r.n])))

\* node[T].maybeSplitChild
maybeSplitChildG(c, n, i, mx) ==
  IF i >= Len(c.heap[n].children)
    THEN [c |-> [c EXCEPT !.panic = TRUE], split |-> FALSE]
  ELSE IF Len(c.heap[c.heap[n].children[i + 1]].items) < mx
    THEN [c |-> c, split |-> FALSE]
  ELSE
    With(splitG(Note(c, "maybeSplitChild", n, i), c.heap[n].children[i + 1],
                mx \div 2), LAMBDA sp :
      IF sp.c.panic THEN [c |-> sp.c, split |-> FALSE]
      ELSE IF i > Len(sp.c.heap[n].items)
        THEN [c |-> [sp.c EXCEPT !.panic = TRUE], split |-> FALSE]
      ELSE
        With(SetItems(sp.c, n, insertAt(sp.c.heap[n].items, i, sp.item)),
             LAMBDA c1 :
          IF i + 1 > Len(c1.heap[n].children)
            THEN [c |-> [c1 EXCEPT !.panic = TRUE], split |-> FALSE]
            ELSE [c |-> SetChildren(c1, n, insertAt(c1.heap[n].children, i + 1,
                                                    sp.next)),
                  split |-> TRUE]))

\* node[T].insert
RECURSIVE insertG(_, _, _, _)
insertG(c0, n, item, mx) ==
  With(Note(c0, "insert", n, 0), LAMBDA c :
  IF c.fuel = 0 \/ c.heap[n].t = 0 THEN Fail(c)
  ELSE
    With(find(c.heap[n].items, item), LAMBDA f :
      IF f.found
        THEN [c |-> Wrote([c EXCEPT !.heap[n].items[f.index + 1] = item]),
              out |-> c.heap[n].items[f.index + 1], found |-> TRUE]
      ELSE IF Len(c.heap[n].children) = 0
        THEN [c |-> SetItems(c, n, insertAt(c.heap[n].items, f.index, item)),
              out |-> nilItem, found |-> FALSE]
      ELSE
        With(maybeSplitChildG(c, n, f.index, mx), LAMBDA m :
          LET inTree == m.c.heap[n].items[f.index + 1] IN
          IF m.c.panic \/ m.c.heap[n].t = 0 THEN Fail(m.c)
          ELSE IF m.split /\ f.index >= Len(m.c.heap[n].items) THEN Fail(m.c)
          ELSE IF m.split /\ ~Less(item, inTree) /\ ~Less(inTree, item)
            THEN [c |-> Wrote([m.c EXCEPT !.heap[n].items[f.index + 1] = item]),
                  out |-> inTree, found |-> TRUE]
          ELSE
            With(IF m.split /\ Less(inTree, item) THEN f.index + 1 ELSE f.index,
                 LAMBDA i :
              IF i >= Len(m.c.heap[n].children) THEN Fail(m.c)
              ELSE insertG(Deeper(m.c), m.c.heap[n].children[i + 1], item, mx)))))

\* node[T].get
RECURSIVE getG(_, _, _)
getG(c, n, key) ==
  IF c.heap[n].t = 0 THEN Fail(c)
  ELSE LET f == find(c.heap[n].items, key) IN
       IF f.found THEN [c |-> c, out |-> c.heap[n].items[f.index + 1], found |-> TRUE]
       ELSE IF Len(c.heap[n].children) > 0
         THEN IF f.index >= Len(c.heap[n].children) THEN Fail(c)
              ELSE getG(c, c.heap[n].children[f.index + 1], key)
       ELSE [c |-> c, out |-> nilItem, found |-> FALSE]


\* min[T] / max[T]: [out, found]
RECURSIVE minG(_, _)
minG(h, n) ==
  IF n = 0 THEN [out |-> nilItem, found |-> FALSE]
  ELSE IF Len(h[n].children) > 0 THEN minG(h, h[n].children[1])
  ELSE IF Len(h[n].items) = 0 THEN [out |-> nilItem, found |-> FALSE]
  ELSE [out |-> h[n].items[1], found |-> TRUE]

RECURSIVE maxG(_, _)
maxG(h, n) ==
  IF n = 0 THEN [out |-> nilItem, found |-> FALSE]
  ELSE IF Len(h[n].children) > 0 THEN maxG(h, h[n].children[Len(h[n].children)])
  ELSE IF Len(h[n].items) = 0 THEN [out |-> nilItem, found |-> FALSE]
  ELSE [out |-> h[n].items[Len(h[n].items)], found |-> TRUE]

\* node[T].remove and node[T].growChildAndRemove
RECURSIVE removeG(_, _, _, _, _)
RECURSIVE growChildAndRemoveG(_, _, _, _, _, _)
removeG(c, n, item, mn, typ) ==
  With(c.heap[n], LAMBDA nd :
    IF c.fuel = 0 THEN Fail(c)
    ELSE IF typ = removeMax /\ Len(nd.children) = 0
      THEN IF Len(nd.items) = 0 THEN Fail(c)
           ELSE [c |-> SetItems(c, n, pop(nd.items)),
                 out |-> nd.items[Len(nd.items)], found |-> TRUE]
    ELSE IF typ = removeMin /\ Len(nd.children) = 0
      THEN IF Len(nd.items) = 0 THEN Fail(c)
           ELSE [c |-> SetItems(c, n, removeAt(nd.items, 0)),
                 out |-> nd.items[1], found |-> TRUE]
    ELSE IF typ = removeItem /\ nd.t = 0 THEN Fail(c)
    ELSE
      With(IF typ = removeItem THEN find(nd.items, item)
           ELSE [index |-> IF typ = removeMax THEN Len(nd.items) ELSE 0,
                 found |-> FALSE], LAMBDA f :
        IF typ = removeItem /\ Len(nd.children) = 0
          THEN IF f.found
                 THEN [c |-> SetItems(c, n, removeAt(nd.items, f.index)),
                       out |-> nd.items[f.index + 1], found |-> TRUE]
                 ELSE [c |-> c, out |-> nilItem, found |-> FALSE]
        ELSE IF f.index >= Len(nd.children) THEN Fail(c)
        ELSE IF Len(c.heap[nd.children[f.index + 1]].items) <= mn
          THEN growChildAndRemoveG(c, n, f.index, item, mn, typ)
        ELSE IF f.found
          THEN With(removeG(Deeper(Note(c, "predecessor", n, f.index)),
                            nd.children[f.index + 1], nilItem, mn,
                            removeMax), LAMBDA r :
                 IF r.c.panic \/ f.index >= Len(r.c.heap[n].items) THEN Fail(r.c)
                 ELSE [c |-> Wrote([r.c EXCEPT !.heap[n].items[f.index + 1] = r.out]),
                       out |-> nd.items[f.index + 1], found |-> TRUE])
          ELSE removeG(Deeper(Note(c, "descend", n, f.index)),
                       nd.children[f.index + 1], item, mn, typ)))

\* growChildAndRemove, case 1: steal from the left child.  The result is the
\* objects after the statements, with panic set where one of them fails.
stealLeftG(c, n, i) ==
  IF i >= Len(c.heap[n].children) THEN [c EXCEPT !.panic = TRUE]
  ELSE
    With(c.heap[n].children[i + 1], LAMBDA child :
    With(c.heap[n].children[i], LAMBDA stealFrom :
    With(SetItems(c, stealFrom, pop(c.heap[stealFrom].items)), LAMBDA c1 :
      IF i - 1 >= Len(c1.heap[n].items) THEN [c1 EXCEPT !.panic = TRUE]
      ELSE
        With(SetItems(c1, child, insertAt(c1.heap[child].items, 0,
                                          c1.heap[n].items[i])), LAMBDA c2 :
          IF i - 1 >= Len(c2.heap[n].items) THEN [c2 EXCEPT !.panic = TRUE]
          ELSE
            With(Wrote([c2 EXCEPT !.heap[n].items[i] =
                    c.heap[stealFrom].items[Len(c.heap[stealFrom].items)]]),
                 LAMBDA c3 :
              IF Len(c3.heap[stealFrom].children) > 0
                THEN
                  With(SetChildren(c3, stealFrom, pop(c3.heap[stealFrom].children)),
                       LAMBDA c3a :
                    SetChildren(c3a, child,
                                insertAt(c3a.heap[child].children, 0,
                                         c3.heap[stealFrom].children[
                                           Len(c3.heap[stealFrom].children)])))
                ELSE c3)))))

\* growChildAndRemove, case 2: steal from the right child
stealRightG(c, n, i) ==
  With(c.heap[n].children[i + 1], LAMBDA child :
  With(c.heap[n].children[i + 2], LAMBDA stealFrom :
  With(SetItems(c, stealFrom, removeAt(c.heap[stealFrom].items, 0)), LAMBDA c1 :
    IF i >= Len(c1.heap[n].items) THEN [c1 EXCEPT !.panic = TRUE]
    ELSE
      With(SetItems(c1, child, Append(c1.heap[child].items,
                                      c1.heap[n].items[i + 1])), LAMBDA c2 :
        IF i >= Len(c2.heap[n].items) THEN [c2 EXCEPT !.panic = TRUE]
        ELSE
          With(Wrote([c2 EXCEPT !.heap[n].items[i + 1] = c.heap[stealFrom].items[1]]),
               LAMBDA c3 :
            IF Len(c3.heap[stealFrom].children) > 0
              THEN
                With(SetChildren(c3, stealFrom,
                                 removeAt(c3.heap[stealFrom].children, 0)),
                     LAMBDA c3a :
                  SetChildren(c3a, child,
                              Append(c3a.heap[child].children,
                                     c3.heap[stealFrom].children[1])))
              ELSE c3)))))

\* growChildAndRemove, case 3: merge child i with its right sibling
mergeG(c, n, i) ==
  IF i < 0 \/ i >= Len(c.heap[n].children) \/ i >= Len(c.heap[n].items)
    THEN [c EXCEPT !.panic = TRUE]
  ELSE
    With(c.heap[n].children[i + 1], LAMBDA child :
    With(SetItems(c, n, removeAt(c.heap[n].items, i)), LAMBDA c1 :
      IF i + 1 >= Len(c1.heap[n].children) THEN [c1 EXCEPT !.panic = TRUE]
      ELSE
        With(c1.heap[n].children[i + 2], LAMBDA mergeChild :
        With(SetChildren(c1, n, removeAt(c1.heap[n].children, i + 1)), LAMBDA c2 :
        With(SetItems(c2, child, Append(c2.heap[child].items,
                                        c.heap[n].items[i + 1])), LAMBDA c3 :
        With(SetItems(c3, child, c3.heap[child].items
                                   \o c3.heap[mergeChild].items), LAMBDA c4 :
        With(SetChildren(c4, child, c4.heap[child].children
                                      \o c4.heap[mergeChild].children), LAMBDA c5 :
          IF c5.heap[n].t = 0
            \* n.t.freeNode with n.t nil: the receiver's fields are cleared
            \* before the nil freelist is reached
            THEN Wrote([c5 EXCEPT !.heap[mergeChild].items = <<>>,
                            !.heap[mergeChild].children = <<>>,
                            !.heap[mergeChild].t = 0,
                            !.panic = TRUE])
            ELSE BTreeG_freeNode(c5, c5.heap[n].t, mergeChild))))))))

\* growChildAndRemove up to its last statement: the one step that grows
\* child i
growChildG(c0, n, i, mn) ==
  With(Note(c0, "growChildAndRemove", n, i), LAMBDA c :
    IF i > 0 /\ i - 1 >= Len(c.heap[n].children) THEN [c EXCEPT !.panic = TRUE]
    ELSE IF i > 0 /\ Len(c.heap[c.heap[n].children[i]].items) > mn
      THEN stealLeftG(Note(c, "stealLeft", n, i), n, i)
    ELSE IF i < Len(c.heap[n].items) /\ i + 1 >= Len(c.heap[n].children)
      THEN [c EXCEPT !.panic = TRUE]
    ELSE IF i < Len(c.heap[n].items)
            /\ Len(c.heap[c.heap[n].children[i + 2]].items) > mn
      THEN stealRightG(Note(c, "stealRight", n, i), n, i)
    ELSE With(IF i >= Len(c.heap[n].items) THEN i - 1 ELSE i, LAMBDA j :
           mergeG(Note(c, "merge", n, j), n, j)))

growChildAndRemoveG(c0, n, i, item, mn, typ) ==
  With(growChildG(c0, n, i, mn), LAMBDA c1 :
    IF c1.panic THEN Fail(c1)
    ELSE removeG(Deeper(Note(c1, "retry", n, i)), n, item, mn, typ))

\* BTreeG.maxItems, BTreeG.minItems: as for ImmutableBTree (maxItems, minItems)

\* BTreeG.ReplaceOrInsert on the tree struct t
ReplaceOrInsertG(c, t, item) ==
  IF c.trees[t].root = 0
    THEN
      With(BTreeG_newNode(c, t), LAMBDA r :
        [c |-> Wrote([r.c EXCEPT !.trees[t].root = r.n,
                           !.heap[r.n].items = Append(@, item),
                           !.trees[t].length = @ + 1]),
         out |-> nilItem, found |-> FALSE])
  ELSE
    With(IF Len(c.heap[c.trees[t].root].items) >= maxItems(c.trees[t])
           THEN
             With(splitG(c, c.trees[t].root, maxItems(c.trees[t]) \div 2),
                  LAMBDA sp :
               IF sp.c.panic THEN sp.c
               ELSE
                 With(BTreeG_newNode(sp.c, t), LAMBDA r :
                 With(SetItems(Wrote([r.c EXCEPT !.trees[t].root = r.n]), r.n,
                               Append(r.c.heap[r.n].items, sp.item)), LAMBDA c2 :
                   SetChildren(c2, r.n, c2.heap[r.n].children
                                          \o <<c.trees[t].root, sp.next>>))))
           ELSE c, LAMBDA c3 :
      IF c3.panic THEN Fail(c3)
      ELSE
        With(insertG(c3, c3.trees[t].root, item, maxItems(c.trees[t])),
             LAMBDA ins :
          IF ins.c.panic THEN ins
          ELSE [ins EXCEPT !.c.trees[t].length = IF ins.found THEN @ ELSE @ + 1]))

\* BTreeG.deleteItem on the tree struct t
deleteItemG(c, t, item, typ) ==
  IF c.trees[t].root = 0 \/ Len(c.heap[c.trees[t].root].items) = 0
    THEN [c |-> c, out |-> nilItem, found |-> FALSE]
  ELSE
    With(c.trees[t].root, LAMBDA root :
    With(removeG(c, root, item, minItems(c.trees[t]), typ), LAMBDA r :
      IF r.c.panic THEN r
      ELSE
        \* oldroot goes to the free list as it is (t.freelist.freeNode)
        With(IF Len(r.c.heap[root].items) = 0 /\ Len(r.c.heap[root].children) > 0
               THEN FreeListG_freeNode(
                      Wrote([r.c EXCEPT !.trees[t].root = r.c.heap[root].children[1]]),
                      r.c.trees[t].freelist, root)
               ELSE r.c, LAMBDA c2 :
          [c |-> IF r.found THEN Wrote([c2 EXCEPT !.trees[t].length = @ - 1]) ELSE c2,
           out |-> r.out, found |-> r.found])))


\* node[T].iterate.  As for iterate, with optionalItem modelled by nilItem
\* (valid = FALSE) and a `panic` field for an index out of range or the use
\* of n.t.less on a node whose t is nil.
RECURSIVE iterateG(_, _, _, _, _, _, _, _, _)
RECURSIVE ascendLoopG(_, _, _, _, _, _, _, _, _)
RECURSIVE descendLoopG(_, _, _, _, _, _, _, _, _)
\* node[T].iterate starting every node at its first item, without the search
\* for the start
iterateGFromFirst(h, n, dir, start, stop, includeStart, hit, until, out) ==
  IF dir = ascend
    THEN ascendLoopG(h, n, 0, start, stop, includeStart, hit, until, out)
    ELSE descendLoopG(h, n, Len(h[n].items) - 1, start, stop, includeStart,
                      hit, until, out)

iterateG(h, n, dir, start, stop, includeStart, hit, until, out) ==
  LET nd == h[n]
      f == find(nd.items, start) IN
  IF start # nilItem /\ nd.t = 0
    THEN [hit |-> hit, ok |-> FALSE, out |-> out, panic |-> TRUE]
  ELSE IF dir = ascend
    THEN ascendLoopG(h, n, IF start # nilItem THEN f.index ELSE 0,
                     start, stop, includeStart, hit, until, out)
    ELSE descendLoopG(h, n, IF start # nilItem
                              THEN (IF f.found THEN f.index ELSE f.index - 1)
                              ELSE Len(nd.items) - 1,
                      start, stop, includeStart, hit, until, out)

ascendLoopG(h, n, i, start, stop, includeStart, hit, until, out) ==
  LET nd == h[n]
      bad(ht, o) == [hit |-> ht, ok |-> FALSE, out |-> o, panic |-> TRUE] IN
  IF i < Len(nd.items)
    THEN
      IF Len(nd.children) > 0 /\ i >= Len(nd.children) THEN bad(hit, out)
      ELSE
        LET r == IF Len(nd.children) > 0
                   THEN iterateG(h, nd.children[i + 1], ascend, start, stop,
                                 includeStart, hit, until, out)
                   ELSE [hit |-> hit, ok |-> TRUE, out |-> out, panic |-> FALSE] IN
        IF ~r.ok THEN [r EXCEPT !.ok = FALSE]
        ELSE IF ~includeStart /\ ~r.hit /\ start # nilItem
                /\ ~Less(start, nd.items[i + 1])
          THEN ascendLoopG(h, n, i + 1, start, stop, includeStart, TRUE, until,
                           r.out)
        ELSE IF stop # nilItem /\ nd.t = 0 THEN bad(TRUE, r.out)
        ELSE IF stop # nilItem /\ ~Less(nd.items[i + 1], stop)
          THEN [hit |-> TRUE, ok |-> FALSE, out |-> r.out, panic |-> FALSE]
        ELSE IF nd.items[i + 1][1] = until
          THEN [hit |-> TRUE, ok |-> FALSE,
                out |-> Append(r.out, nd.items[i + 1]), panic |-> FALSE]
        ELSE ascendLoopG(h, n, i + 1, start, stop, includeStart, TRUE, until,
                         Append(r.out, nd.items[i + 1]))
    ELSE
      IF Len(nd.children) > 0
        THEN iterateG(h, nd.children[Len(nd.children)], ascend, start, stop,
                      includeStart, hit, until, out)
        ELSE [hit |-> hit, ok |-> TRUE, out |-> out, panic |-> FALSE]

descendLoopG(h, n, i, start, stop, includeStart, hit, until, out) ==
  LET nd == h[n]
      bad(ht, o) == [hit |-> ht, ok |-> FALSE, out |-> o, panic |-> TRUE] IN
  IF i >= 0
    THEN
      IF i >= Len(nd.items) THEN bad(hit, out)
      ELSE IF start # nilItem /\ ~Less(nd.items[i + 1], start)
         /\ (~includeStart \/ hit \/ Less(start, nd.items[i + 1]))
        THEN descendLoopG(h, n, i - 1, start, stop, includeStart, hit, until, out)
      ELSE IF Len(nd.children) > 0 /\ i + 1 >= Len(nd.children) THEN bad(hit, out)
      ELSE
        LET r == IF Len(nd.children) > 0
                   THEN iterateG(h, nd.children[i + 2], descend, start, stop,
                                 includeStart, hit, until, out)
                   ELSE [hit |-> hit, ok |-> TRUE, out |-> out, panic |-> FALSE] IN
        IF ~r.ok THEN [r EXCEPT !.ok = FALSE]
        ELSE IF stop # nilItem /\ nd.t = 0 THEN bad(r.hit, r.out)
        ELSE IF stop # nilItem /\ ~Less(stop, nd.items[i + 1])
          THEN [hit |-> r.hit, ok |-> FALSE, out |-> r.out, panic |-> FALSE]
        ELSE IF nd.items[i + 1][1] = until
          THEN [hit |-> TRUE, ok |-> FALSE,
                out |-> Append(r.out, nd.items[i + 1]), panic |-> FALSE]
        ELSE descendLoopG(h, n, i - 1, start, stop, includeStart, TRUE, until,
                          Append(r.out, nd.items[i + 1]))
    ELSE
      IF Len(nd.children) > 0
        THEN iterateG(h, nd.children[1], descend, start, stop, includeStart, hit,
                      until, out)
        ELSE [hit |-> hit, ok |-> TRUE, out |-> out, panic |-> FALSE]

\* BTreeG.Ascend, BTreeG.Descend: the iterate result (out, panic)
AscendG(h, ts, t) ==
  IF ts[t].root = 0 THEN [hit |-> FALSE, ok |-> TRUE, out |-> <<>>, panic |-> FALSE]
  ELSE iterateG(h, ts[t].root, ascend, nilItem, nilItem, FALSE, FALSE, 0, <<>>)

DescendG(h, ts, t) ==
  IF ts[t].root = 0 THEN [hit |-> FALSE, ok |-> TRUE, out |-> <<>>, panic |-> FALSE]
  ELSE iterateG(h, ts[t].root, descend, nilItem, nilItem, FALSE, FALSE, 0, <<>>)

\* A call of BTreeG.Ascend* / Descend* on a tree without root
noRootG == [hit |-> FALSE, ok |-> TRUE, out |-> <<>>, panic |-> FALSE]

\* BTreeG.AscendRange / AscendLessThan / AscendGreaterOrEqual / DescendRange /
\* DescendLessOrEqual / DescendGreaterThan, and Ascend / Descend, with an
\* iterator that returns FALSE on the item with key `until`: the iterate
\* result (out, panic)
AscendRangeG(h, ts, t, greaterOrEqual, lessThan, until) ==
  IF ts[t].root = 0 THEN noRootG
  ELSE iterateG(h, ts[t].root, ascend, greaterOrEqual, lessThan, TRUE, FALSE,
                until, <<>>)

AscendLessThanG(h, ts, t, pivot, until) ==
  IF ts[t].root = 0 THEN noRootG
  ELSE iterateG(h, ts[t].root, ascend, nilItem, pivot, FALSE, FALSE, until, <<>>)

AscendGreaterOrEqualG(h, ts, t, pivot, until) ==
  IF ts[t].root = 0 THEN noRootG
  ELSE iterateG(h, ts[t].root, ascend, pivot, nilItem, TRUE, FALSE, until, <<>>)

DescendRangeG(h, ts, t, lessOrEqual, greaterThan, until) ==
  IF ts[t].root = 0 THEN noRootG
  ELSE iterateG(h, ts[t].root, descend, lessOrEqual, greaterThan, TRUE, FALSE,
                until, <<>>)

DescendLessOrEqualG(h, ts, t, pivot, until) ==
  IF ts[t].root = 0 THEN noRootG
  ELSE iterateG(h, ts[t].root, descend, pivot, nilItem, TRUE, FALSE, until, <<>>)

DescendGreaterThanG(h, ts, t, pivot, until) ==
  IF ts[t].root = 0 THEN noRootG
  ELSE iterateG(h, ts[t].root, descend, nilItem, pivot, FALSE, FALSE, until, <<>>)

AscendUntilG(h, ts, t, until) ==
  IF ts[t].root = 0 THEN noRootG
  ELSE iterateG(h, ts[t].root, ascend, nilItem, nilItem, FALSE, FALSE, until, <<>>)

DescendUntilG(h, ts, t, until) ==
  IF ts[t].root = 0 THEN noRootG
  ELSE iterateG(h, ts[t].root, descend, nilItem, nilItem, FALSE, FALSE, until, <<>>)

\* Clear dropping the root and keeping the length
ClearGRootOnly(c, t, addNodesToFreelist) == [c EXCEPT !.trees[t].root = 0]

\* BTreeG.Clear on the tree struct t: the flag is not read
ClearG(c, t, addNodesToFreelist) ==
  [c EXCEPT !.trees[t].root = 0, !.trees[t].length = 0]

\* BTreeG.Get, BTreeG.Min, BTreeG.Max, BTreeG.Has, BTreeG.Len
GetG(c, t, key) ==
  IF c.trees[t].root = 0 THEN [c |-> c, out |-> nilItem, found |-> FALSE]
  ELSE getG(c, c.trees[t].root, key)

MinG(h, ts, t) == minG(h, ts[t].root)

MaxG(h, ts, t) == maxG(h, ts[t].root)

HasG(c, t, key) == GetG(c, t, key).found

LenG(ts, t) == ts[t].length


\* ---------------------------------------------------------------- BTreeG
\* NewG(degree, less): NewWithFreeListG(degree, less,
\* NewFreeListG(DefaultFreeListSize)); `btree.tree` is the caller's *BTreeG.
InitG ==
  /\ impl = "BTreeG"
  /\ heap = <<>>
  /\ \E d \in Degrees :
       trees = <<[degree |-> d, length |-> 0, root |-> 0, freelist |-> 1]>>
  /\ pools = <<NewFreeList(DefaultFreeListSize)>>
  /\ btree = [tree |-> 1, writables |-> {}, tracking |-> FALSE, freelist |-> 0]
  /\ builders = <<>>
  /\ snaps = <<>>
  /\ panicked = FALSE
  /\ calls = <<>>
  /\ ref = [cur |-> <<{}>>, snap |-> <<>>]

ContextG ==
  [heap |-> heap, trees |-> trees, pools |-> pools, panic |-> FALSE,
   fuel |-> MaxDescent, log |-> <<>>]

\* What the code does to nodes that no longer form a B-tree is not followed:
\* the program calls a BTreeG while its nodes are intact.
Intact ==
  TreeStructure(heap, trees[btree.tree].root, trees[btree.tree].degree)

\* The state after a BTreeG call that left the objects as in c; a call that
\* panicked leaves them as they were when the panic was raised.
GReturns(c) ==
  /\ Returns(c, btree, builders, snaps)
  /\ panicked' = c.panic
  /\ UNCHANGED calls

\* BTreeG.ReplaceOrInsert
BTreeG_ReplaceOrInsert(item) ==
  /\ impl = "BTreeG" /\ ~panicked /\ Intact
  /\ GReturns(ReplaceOrInsertG(ContextG, btree.tree, item).c)
  /\ ref' = [ref EXCEPT !.cur[1] = RefInsert(@, item)]

\* BTreeG.Delete
BTreeG_Delete(item) ==
  /\ impl = "BTreeG" /\ ~panicked /\ Intact
  /\ GReturns(deleteItemG(ContextG, btree.tree, item, removeItem).c)
  /\ ref' = [ref EXCEPT !.cur[1] = RefDelete(@, item[1])]

\* BTreeG.DeleteMin
BTreeG_DeleteMin ==
  /\ impl = "BTreeG" /\ ~panicked /\ Intact
  /\ GReturns(deleteItemG(ContextG, btree.tree, nilItem, removeMin).c)
  /\ ref' = [ref EXCEPT !.cur[1] = RefDelete(@, RefMin(@)[1])]

\* BTreeG.DeleteMax
BTreeG_DeleteMax ==
  /\ impl = "BTreeG" /\ ~panicked /\ Intact
  /\ GReturns(deleteItemG(ContextG, btree.tree, nilItem, removeMax).c)
  /\ ref' = [ref EXCEPT !.cur[1] = RefDelete(@, RefMax(@)[1])]

KeysG == 1..MaxKeyG
ItemsG == ItemsUpTo(MaxKeyG)

NextG ==
  \/ \E item \in ItemsG : BTreeG_ReplaceOrInsert(item)
  \/ \E item \in ItemsG : BTreeG_Delete(item)
  \/ BTreeG_DeleteMin
  \/ BTreeG_DeleteMax

SpecG == InitG /\ [][NextG]_vars


\* ------------------------------------------------------------ two Builders
\* The program fills a Builder b1 from the empty tree, takes S := b1.Build(),
\* makes b2 := NewBuilder(S) and then makes at most MaxCalls calls through
\* each of b1 and b2, in any interleaving.
KeysS == 1..MaxKeyS
ItemsS == ItemsUpTo(MaxKeyS)

InitBuilders ==
  /\ impl = "Builders"
  /\ heap = <<>>
  /\ \E d \in Degrees : trees = <<[degree |-> d, length |-> 0, root |-> 0]>>
  /\ pools = <<NewFreeList(DefaultFreeListSize)>>
  /\ btree = [tree |-> 0, writables |-> {}, tracking |-> FALSE, freelist |-> 0]
  /\ builders = <<NewBuilder(trees, 1, 1)>>
  /\ snaps = <<>>
  /\ panicked = FALSE
  /\ calls = <<>>
  /\ ref = [cur |-> <<{}>>, snap |-> <<>>]

\* b1.ReplaceOrInsert(item) before S is taken
Fill(item) ==
  /\ impl = "Builders" /\ Len(builders) = 1 /\ snaps = <<>>
  /\ LET wb == writableBTree(builders[1], trees)
         r == replaceOrInsert(BuilderContext(wb), wb.x.tree, item) IN
     /\ BuilderReturns(1, wb, r.c)
     /\ ref' = [ref EXCEPT !.cur[1] = RefInsert(@, item)]

\* S := b1.Build()
Snapshot ==
  /\ impl = "Builders" /\ Len(builders) = 1 /\ snaps = <<>>
  /\ LET result == builders[1].tree
         x == Set(builders[1], trees, result) IN
     /\ Returns([heap |-> heap, trees |-> trees, pools |-> pools],
                btree, <<x>>, <<result>>)
     /\ ref' = [ref EXCEPT !.snap = <<ref.cur[1]>>]
     /\ UNCHANGED <<panicked, calls>>

\* b2 := NewBuilder(S)
Derive ==
  /\ impl = "Builders" /\ Len(builders) = 1 /\ snaps # <<>>
  /\ LET ps == Append(pools, NewFreeList(DefaultFreeListSize)) IN
     Returns([heap |-> heap, trees |-> trees, pools |-> ps], btree,
             Append(builders, NewBuilder(trees, snaps[1], Len(ps))), snaps)
  /\ calls' = <<0, 0>>
  /\ ref' = [ref EXCEPT !.cur = Append(@, ref.snap[1])]
  /\ UNCHANGED panicked

\* The mutating methods of a Builder, by name
Mutators == {"ReplaceOrInsert", "Delete", "DeleteMin", "DeleteMax"}

\* ImmutableBTree.replaceOrInsert or ImmutableBTree.deleteItem, as the
\* method `op` of a BTree or a Builder calls it: (c, out)
mutate(c, t, op, item) ==
  IF op = "ReplaceOrInsert"
    THEN LET r == replaceOrInsert(c, t, item) IN [c |-> r.c, out |-> r.out]
  ELSE IF op = "Delete" THEN deleteItem(c, t, item, removeItem)
  ELSE IF op = "DeleteMin" THEN deleteItem(c, t, nilItem, removeMin)
  ELSE deleteItem(c, t, nilItem, removeMax)

\* The items method op can be given, out of the set I
Operands(op, I) == IF op \in {"DeleteMin", "DeleteMax"} THEN {nilItem} ELSE I

\* The reference map after method op
RefMutate(R, op, item) ==
  IF op = "ReplaceOrInsert" THEN RefInsert(R, item)
  ELSE IF op = "Delete" THEN RefDelete(R, item[1])
  ELSE IF op = "DeleteMin" THEN RefDelete(R, RefMin(R)[1])
  ELSE RefDelete(R, RefMax(R)[1])

\* A mutating call through Builder b once there are two
Mutate(b, op, item) ==
  /\ impl = "Builders" /\ Len(builders) = 2 /\ calls[b] < MaxCalls
  /\ LET wb == writableBTree(builders[b], trees)
         r == mutate(BuilderContext(wb), wb.x.tree, op, item) IN
     /\ Returns(r.c, btree,
                [builders EXCEPT ![b] = [wb.x EXCEPT !.writables = r.c.writables]],
                snaps)
     /\ ref' = [ref EXCEPT !.cur[b] = RefMutate(@, op, item)]
  /\ calls' = [calls EXCEPT ![b] = @ + 1]
  /\ UNCHANGED panicked

\* b.Build() once there are two Builders; the caller drops the result
Rebuild(b) ==
  /\ impl = "Builders" /\ Len(builders) = 2 /\ calls[b] < MaxCalls
  /\ Returns([heap |-> heap, trees |-> trees, pools |-> pools], btree,
             [builders EXCEPT ![b] = Set(@, trees, builders[b].tree)], snaps)
  /\ calls' = [calls EXCEPT ![b] = @ + 1]
  /\ UNCHANGED <<panicked, ref>>

\* b.Set(S) once there are two Builders
Reset(b) ==
  /\ impl = "Builders" /\ Len(builders) = 2 /\ calls[b] < MaxCalls
  /\ Returns([heap |-> heap, trees |-> trees, pools |-> pools], btree,
             [builders EXCEPT ![b] = Set(@, trees, snaps[1])], snaps)
  /\ ref' = [ref EXCEPT !.cur[b] = ref.snap[1]]
  /\ calls' = [calls EXCEPT ![b] = @ + 1]
  /\ UNCHANGED panicked

NextBuilders ==
  \/ \E item \in ItemsS : Fill(item)
  \/ Snapshot
  \/ Derive
  \/ \E b \in 1..Len(builders), op \in Mutators :
       \E item \in Operands(op, ItemsS) : Mutate(b, op, item)
  \/ \E b \in 1..Len(builders) : Rebuild(b)
  \/ \E b \in 1..Len(builders) : Reset(b)

SpecBuilders == InitBuilders /\ [][NextBuilders]_vars


\* ------------------------------------------------------- constructors
\* The program starts with nothing built, calls one constructor with a degree
\* of DegreesAsked and, where the constructor takes a free list, a free list
\* of a size of FreeListSizes, and then calls the tree it got.
MaxFreeList == 2
DegreesAsked == -1..MaxDegree
FreeListSizes == 0..MaxFreeList \cup {DefaultFreeListSize}

\* NewFreeListG(size)
NewFreeListG(size) == [freelist |-> <<>>, cap |-> size]

\* NewImmutable refusing the degree 0 and the degrees below
NewImmutableFromOne(degree) ==
  IF degree <= 0
    THEN [panic |-> TRUE, trees |-> <<>>, pools |-> <<>>]
    ELSE [panic |-> FALSE,
          trees |-> <<[degree |-> degree, length |-> 0, root |-> 0]>>,
          pools |-> <<>>]

\* NewImmutable(degree): the ImmutableBTree it returns, or the panic
NewImmutable(degree) ==
  IF degree <= 1
    THEN [panic |-> TRUE, trees |-> <<>>, pools |-> <<>>]
    ELSE [panic |-> FALSE,
          trees |-> <<[degree |-> degree, length |-> 0, root |-> 0]>>,
          pools |-> <<>>]

\* NewWithFreeList(degree, f): the free list f is pools[1] of the result
NewWithFreeList(degree, f) ==
  With(NewImmutable(degree), LAMBDA r : [r EXCEPT !.pools = <<f>>])

\* New(degree)
New(degree) == NewWithFreeList(degree, NewFreeList(DefaultFreeListSize))

\* NewWithFreeListG(degree, less, f): the free list f is pools[1] of the result
NewWithFreeListG(degree, f) ==
  IF degree <= 1
    THEN [panic |-> TRUE, trees |-> <<>>, pools |-> <<f>>]
    ELSE [panic |-> FALSE,
          trees |-> <<[degree |-> degree, length |-> 0, root |-> 0,
                       freelist |-> 1]>>,
          pools |-> <<f>>]

\* NewG(degree, less) and NewOrderedG(degree)
NewG(degree) == NewWithFreeListG(degree, NewFreeListG(DefaultFreeListSize))
NewOrderedG(degree) == NewG(degree)

InitNone ==
  /\ impl = "none"
  /\ heap = <<>>
  /\ trees = <<>>
  /\ pools = <<>>
  /\ btree = [tree |-> 0, writables |-> {}, tracking |-> FALSE, freelist |-> 0]
  /\ builders = <<>>
  /\ snaps = <<>>
  /\ panicked = FALSE
  /\ calls = <<>>
  /\ ref = [cur |-> <<>>, snap |-> <<>>, asked |-> <<>>]

\* The state after the constructor call that returned r, asked for `degree`:
\* the program holds an object of the given kind, or nothing after a panic.
\* ref.asked records the degree the program asked for.
Constructed(kind, r, degree) ==
  /\ ~panicked
  /\ impl' = IF r.panic THEN "none" ELSE kind
  /\ panicked' = r.panic
  /\ heap' = <<>>
  /\ trees' = r.trees
  /\ pools' = r.pools
  /\ btree' = [tree |-> IF ~r.panic /\ kind \in {"BTree", "BTreeG"} THEN 1 ELSE 0,
               writables |-> {}, tracking |-> FALSE,
               freelist |-> IF ~r.panic /\ kind = "BTree" THEN 1 ELSE 0]
  /\ builders' = <<>>
  /\ snaps' = IF ~r.panic /\ kind = "ImmutableBTree" THEN <<1>> ELSE <<>>
  /\ calls' = <<>>
  /\ ref' = [cur |-> IF ~r.panic /\ kind \in {"BTree", "BTreeG"}
                       THEN <<{}>> ELSE <<>>,
             snap |-> IF ~r.panic /\ kind = "ImmutableBTree" THEN <<{}>> ELSE <<>>,
             asked |-> <<degree>>]

Main_New(degree) ==
  /\ impl = "none"
  /\ Constructed("BTree", New(degree), degree)

Main_NewWithFreeList(degree, size) ==
  /\ impl = "none"
  /\ Constructed("BTree", NewWithFreeList(degree, NewFreeList(size)), degree)

Main_NewImmutable(degree) ==
  /\ impl = "none"
  /\ Constructed("ImmutableBTree", NewImmutable(degree), degree)

Main_NewG(degree) ==
  /\ impl = "none"
  /\ Constructed("BTreeG", NewG(degree), degree)

Main_NewOrderedG(degree) ==
  /\ impl = "none"
  /\ Constructed("BTreeG", NewOrderedG(degree), degree)

Main_NewWithFreeListG(degree, size) ==
  /\ impl = "none"
  /\ Constructed("BTreeG", NewWithFreeListG(degree, NewFreeListG(size)),
                 degree)

\* b := NewBuilder(t) on the ImmutableBTree t the program got
Main_NewBuilder ==
  /\ impl = "ImmutableBTree"
  /\ impl' = "Builder"
  /\ pools' = <<NewFreeList(DefaultFreeListSize)>>
  /\ builders' = <<NewBuilder(trees, snaps[1], 1)>>
  /\ snaps' = <<>>
  /\ ref' = [ref EXCEPT !.cur = <<{}>>, !.snap = <<>>]
  /\ UNCHANGED <<heap, trees, btree, panicked, calls>>

\* BTreeG.Clear
BTreeG_Clear(addNodesToFreelist) ==
  /\ impl = "BTreeG" /\ ~panicked
  /\ GReturns(ClearG(ContextG, btree.tree, addNodesToFreelist))
  /\ ref' = [ref EXCEPT !.cur[1] = {}]

NextNone ==
  \/ \E degree \in DegreesAsked : Main_New(degree)
  \/ \E degree \in DegreesAsked, size \in FreeListSizes :
       Main_NewWithFreeList(degree, size)
  \/ \E degree \in DegreesAsked : Main_NewImmutable(degree)
  \/ Main_NewBuilder
  \/ \E degree \in DegreesAsked : Main_NewG(degree)
  \/ \E degree \in DegreesAsked : Main_NewOrderedG(degree)
  \/ \E degree \in DegreesAsked, size \in FreeListSizes :
       Main_NewWithFreeListG(degree, size)
  \/ \E item \in ItemsB : BTree_ReplaceOrInsert(item)
  \/ \E item \in ItemsB : BTree_Delete(item)
  \/ BTree_DeleteMin
  \/ BTree_DeleteMax
  \/ NextBuilder
  \/ \E item \in ItemsB : BTreeG_ReplaceOrInsert(item)
  \/ \E item \in ItemsB : BTreeG_Delete(item)
  \/ BTreeG_DeleteMin
  \/ BTreeG_DeleteMax
  \/ \E addNodesToFreelist \in BOOLEAN : BTreeG_Clear(addNodesToFreelist)

SpecNone == InitNone /\ [][NextNone]_vars


\* ------------------------------------------- FreeListG under goroutines
\* MaxGoroutines goroutines call newNode and freeNode of one FreeListG.  In
\* this scenario pools[1] is the FreeListG with its mutex mu (0: unlocked,
\* g: locked by goroutine g), heap the nodes allocated so far, at most
\* MaxNodes, and calls[g] the call goroutine g is in: the statement it is at
\* (pc) and its locals n, index and out.  ref.held[g] is the set of nodes g
\* got from newNode and has not passed to freeNode, ref.pooled the set of
\* nodes freeNode accepted and newNode has not returned.
MaxGoroutines == 2
MaxNodes == 3
Goroutines == 1..MaxGoroutines

\* sync.Mutex.Lock taking the mutex whoever holds it
LockAnyway(mu, g) == [ok |-> TRUE, mu |-> g]

\* sync.Mutex.Lock by goroutine g: g goes on when the mutex is unlocked
Lock(mu, g) == [ok |-> mu = 0, mu |-> g]

idle == [pc |-> "idle", n |-> 0, index |-> 0, out |-> FALSE]

InitFreeListG ==
  /\ impl = "FreeListG"
  /\ heap = <<>>
  /\ trees = <<>>
  /\ \E size \in 0..MaxFreeList :
       pools = <<[freelist |-> <<>>, cap |-> size, mu |-> 0]>>
  /\ btree = [tree |-> 0, writables |-> {}, tracking |-> FALSE, freelist |-> 0]
  /\ builders = <<>>
  /\ snaps = <<>>
  /\ panicked = FALSE
  /\ calls = [g \in Goroutines |-> idle]
  /\ ref = [held |-> [g \in Goroutines |-> {}], pooled |-> {}]

\* Goroutine g goes from statement `from` to statement `to`
Goes(g, from, to) ==
  /\ impl = "FreeListG"
  /\ calls[g].pc = from
  /\ calls' = [calls EXCEPT ![g].pc = to]
  /\ UNCHANGED <<impl, trees, btree, builders, snaps, panicked>>

\* g calls f.newNode()
Call_newNode(g) ==
  /\ Goes(g, "idle", "newNode_Lock")
  /\ UNCHANGED <<heap, pools, ref>>

\* f.mu.Lock()
newNode_Lock(g) ==
  /\ Goes(g, "newNode_Lock", "newNode_index")
  /\ Lock(pools[1].mu, g).ok
  /\ pools' = [pools EXCEPT ![1].mu = Lock(pools[1].mu, g).mu]
  /\ UNCHANGED <<heap, ref>>

\* index := len(f.freelist) - 1; if index < 0
newNode_index(g) ==
  /\ impl = "FreeListG"
  /\ calls[g].pc = "newNode_index"
  /\ calls' = [calls EXCEPT
                 ![g].index = Len(pools[1].freelist) - 1,
                 ![g].pc = IF Len(pools[1].freelist) - 1 < 0
                             THEN "newNode_Unlock_new" ELSE "newNode_take"]
  /\ UNCHANGED <<impl, heap, trees, pools, btree, builders, snaps, panicked, ref>>

\* f.mu.Unlock() of the empty free list
newNode_Unlock_new(g) ==
  /\ Goes(g, "newNode_Unlock_new", "newNode_new")
  /\ pools' = [pools EXCEPT ![1].mu = 0]
  /\ UNCHANGED <<heap, ref>>

\* return new(node[T])
newNode_new(g) ==
  /\ Goes(g, "newNode_new", "idle")
  /\ Len(heap) < MaxNodes
  /\ heap' = Append(heap, emptyNodeG)
  /\ ref' = [ref EXCEPT !.held[g] = @ \cup {Len(heap) + 1}]
  /\ UNCHANGED pools

\* n = f.freelist[index]; the index is out of range when the slice got
\* shorter since g read its length
newNode_take(g) ==
  /\ impl = "FreeListG"
  /\ calls[g].pc = "newNode_take"
  /\ IF calls[g].index + 1 \in 1..Len(pools[1].freelist)
       THEN /\ calls' = [calls EXCEPT
                           ![g].n = pools[1].freelist[calls[g].index + 1],
                           ![g].pc = "newNode_nil"]
            /\ UNCHANGED panicked
       ELSE /\ calls' = [calls EXCEPT ![g].pc = "panic"]
            /\ panicked' = TRUE
  /\ UNCHANGED <<impl, heap, trees, pools, btree, builders, snaps, ref>>

\* f.freelist[index] = nil
newNode_nil(g) ==
  /\ Goes(g, "newNode_nil", "newNode_reslice")
  /\ pools' = [pools EXCEPT ![1].freelist =
                 [i \in 1..Len(@) |-> IF i = calls[g].index + 1 THEN 0 ELSE @[i]]]
  /\ UNCHANGED <<heap, ref>>

\* f.freelist = f.freelist[:index]
newNode_reslice(g) ==
  /\ Goes(g, "newNode_reslice", "newNode_Unlock")
  /\ pools' = [pools EXCEPT ![1].freelist =
                 [i \in 1..calls[g].index |-> IF i <= Len(@) THEN @[i] ELSE 0]]
  /\ UNCHANGED <<heap, ref>>

\* f.mu.Unlock(); return n
newNode_Unlock(g) ==
  /\ impl = "FreeListG"
  /\ calls[g].pc = "newNode_Unlock"
  /\ calls' = [calls EXCEPT ![g] = idle]
  /\ pools' = [pools EXCEPT ![1].mu = 0]
  /\ ref' = [ref EXCEPT !.held[g] = @ \cup {calls[g].n},
                        !.pooled = @ \ {calls[g].n}]
  /\ UNCHANGED <<impl, heap, trees, btree, builders, snaps, panicked>>

\* g calls f.freeNode(n) with a node n it holds
Call_freeNode(g, n) ==
  /\ impl = "FreeListG"
  /\ calls[g].pc = "idle"
  /\ n \in ref.held[g]
  /\ calls' = [calls EXCEPT ![g].pc = "freeNode_Lock", ![g].n = n]
  /\ ref' = [ref EXCEPT !.held[g] = @ \ {n}]
  /\ UNCHANGED <<impl, heap, trees, pools, btree, builders, snaps, panicked>>

\* f.mu.Lock()
freeNode_Lock(g) ==
  /\ Goes(g, "freeNode_Lock", "freeNode_if")
  /\ Lock(pools[1].mu, g).ok
  /\ pools' = [pools EXCEPT ![1].mu = Lock(pools[1].mu, g).mu]
  /\ UNCHANGED <<heap, ref>>

\* if len(f.freelist) < cap(f.freelist)
freeNode_if(g) ==
  /\ impl = "FreeListG"
  /\ calls[g].pc = "freeNode_if"
  /\ calls' = [calls EXCEPT
                 ![g].pc = IF Len(pools[1].freelist) < pools[1].cap
                             THEN "freeNode_append" ELSE "freeNode_Unlock"]
  /\ UNCHANGED <<impl, heap, trees, pools, btree, builders, snaps, panicked, ref>>

\* f.freelist = append(f.freelist, n); out = true
freeNode_append(g) ==
  /\ impl = "FreeListG"
  /\ calls[g].pc = "freeNode_append"
  /\ calls' = [calls EXCEPT ![g].pc = "freeNode_Unlock", ![g].out = TRUE]
  /\ pools' = [pools EXCEPT ![1].freelist = Append(@, calls[g].n)]
  /\ UNCHANGED <<impl, heap, trees, btree, builders, snaps, panicked, ref>>

\* f.mu.Unlock(); return
freeNode_Unlock(g) ==
  /\ impl = "FreeListG"
  /\ calls[g].pc = "freeNode_Unlock"
  /\ calls' = [calls EXCEPT ![g] = idle]
  /\ pools' = [pools EXCEPT ![1].mu = 0]
  /\ ref' = [ref EXCEPT !.pooled = IF calls[g].out THEN @ \cup {calls[g].n}
                                   ELSE @]
  /\ UNCHANGED <<impl, heap, trees, btree, builders, snaps, panicked>>

NextFreeListG ==
  \/ \E g \in Goroutines : Call_newNode(g)
  \/ \E g \in Goroutines : newNode_Lock(g)
  \/ \E g \in Goroutines : newNode_index(g)
  \/ \E g \in Goroutines : newNode_Unlock_new(g)
  \/ \E g \in Goroutines : newNode_new(g)
  \/ \E g \in Goroutines : newNode_take(g)
  \/ \E g \in Goroutines : newNode_nil(g)
  \/ \E g \in Goroutines : newNode_reslice(g)
  \/ \E g \in Goroutines : newNode_Unlock(g)
  \/ \E g \in Goroutines, n \in 1..MaxNodes : Call_freeNode(g, n)
  \/ \E g \in Goroutines : freeNode_Lock(g)
  \/ \E g \in Goroutines : freeNode_if(g)
  \/ \E g \in Goroutines : freeNode_append(g)
  \/ \E g \in Goroutines : freeNode_Unlock(g)

SpecFreeListG == InitFreeListG /\ [][NextFreeListG]_vars


\* ------------------------------------ two BTreeG sharing one FreeListG
\* f := NewFreeListG(DefaultFreeListSize), and for each goroutine g a tree
\* snaps[g] := NewWithFreeListG(degree, less, f) that only g calls.  The
\* goroutines meet in f alone, whose newNode and freeNode run under its
\* mutex; the calls of the trees are taken one after the other here, in any
\* order, with items of the keys 1..MaxKeyS.  ref.cur[g] is the reference map
\* of the tree of g.
InitBTreeGs ==
  /\ impl = "BTreeGs"
  /\ heap = <<>>
  /\ \E degree \in Degrees :
       trees = [g \in Goroutines |->
                  NewWithFreeListG(degree, NewFreeListG(DefaultFreeListSize)).trees[1]]
  /\ pools = <<NewFreeListG(DefaultFreeListSize)>>
  /\ btree = [tree |-> 0, writables |-> {}, tracking |-> FALSE, freelist |-> 0]
  /\ builders = <<>>
  /\ snaps = [g \in Goroutines |-> g]
  /\ panicked = FALSE
  /\ calls = <<>>
  /\ ref = [cur |-> [g \in Goroutines |-> {}], snap |-> <<>>]

\* The nodes of the tree struct t form a B-tree
IntactTree(t) == TreeStructure(heap, trees[t].root, trees[t].degree)

\* BTreeG.ReplaceOrInsert by goroutine g on its tree
BTreeGs_ReplaceOrInsert(g, item) ==
  /\ impl = "BTreeGs" /\ ~panicked /\ IntactTree(snaps[g])
  /\ GReturns(ReplaceOrInsertG(ContextG, snaps[g], item).c)
  /\ ref' = [ref EXCEPT !.cur[g] = RefInsert(@, item)]

\* BTreeG.Delete by goroutine g on its tree
BTreeGs_Delete(g, item) ==
  /\ impl = "BTreeGs" /\ ~panicked /\ IntactTree(snaps[g])
  /\ GReturns(deleteItemG(ContextG, snaps[g], item, removeItem).c)
  /\ ref' = [ref EXCEPT !.cur[g] = RefDelete(@, item[1])]

\* BTreeG.DeleteMin by goroutine g on its tree
BTreeGs_DeleteMin(g) ==
  /\ impl = "BTreeGs" /\ ~panicked /\ IntactTree(snaps[g])
  /\ GReturns(deleteItemG(ContextG, snaps[g], nilItem, removeMin).c)
  /\ ref' = [ref EXCEPT !.cur[g] = RefDelete(@, RefMin(@)[1])]

\* BTreeG.DeleteMax by goroutine g on its tree
BTreeGs_DeleteMax(g) ==
  /\ impl = "BTreeGs" /\ ~panicked /\ IntactTree(snaps[g])
  /\ GReturns(deleteItemG(ContextG, snaps[g], nilItem, removeMax).c)
  /\ ref' = [ref EXCEPT !.cur[g] = RefDelete(@, RefMax(@)[1])]

NextBTreeGs ==
  \/ \E g \in Goroutines, item \in ItemsS : BTreeGs_ReplaceOrInsert(g, item)
  \/ \E g \in Goroutines, item \in ItemsS : BTreeGs_Delete(g, item)
  \/ \E g \in Goroutines : BTreeGs_DeleteMin(g)
  \/ \E g \in Goroutines : BTreeGs_DeleteMax(g)

SpecBTreeGs == InitBTreeGs /\ [][NextBTreeGs]_vars


\* ------------------------------------------------------- specifications
\* Only ReplaceOrInsert, on a BTree, on a Builder or on a BTreeG
NextInserts ==
  \/ \E item \in Items : BTree_ReplaceOrInsert(item)
  \/ \E item \in Items : Builder_ReplaceOrInsert(1, item)
  \/ \E item \in Items : BTreeG_ReplaceOrInsert(item)

SpecInserts == (InitBTree \/ InitBuilder \/ InitG) /\ [][NextInserts]_vars

\* A BTree or one Builder of the copy-on-write implementation
SpecCOW == (InitBTree \/ InitBuilder) /\ [][NextBTree \/ NextBuilder]_vars

Init == InitBTree \/ InitBuilder \/ InitBuilders \/ InitG

Next == NextBTree \/ NextBuilder \/ NextBuilders \/ NextG

Spec == Init /\ [][Next]_vars

\* ------------------------------------------------- calls on a given state
\* The objects and the BTree or Builder struct x a call is made through
World(x) == [heap |-> heap, trees |-> trees, pools |-> pools, x |-> x]

\* The BTree or the Builders of the state
Handles ==
  IF impl = "BTree" THEN {btree}
  ELSE IF impl \in {"Builder", "Builders"}
    THEN {builders[b] : b \in 1..Len(builders)}
  ELSE {}

\* The items the scenario passes to the methods
Inputs ==
  IF impl = "BTree" THEN Items
  ELSE IF impl = "Builder" THEN ItemsB
  ELSE IF impl = "Builders" THEN ItemsS
  ELSE ItemsG

\* BTree.op(item) or Builder.op(item) on the world w: the world it leaves
\* and the item it returns
Do(w, op, item) ==
  LET wb == IF "copied" \in DOMAIN w.x THEN writableBTree(w.x, w.trees)
            ELSE [x |-> w.x, trees |-> w.trees]
      c == [heap |-> w.heap, trees |-> wb.trees, pools |-> w.pools,
            writables |-> wb.x.writables, tracking |-> wb.x.tracking,
            freelist |-> wb.x.freelist,
            written |-> {}, assigned |-> {}, log |-> <<>>]
      r == mutate(c, wb.x.tree, op, item) IN
  [w |-> [heap |-> r.c.heap, trees |-> r.c.trees, pools |-> r.c.pools,
          x |-> [wb.x EXCEPT !.writables = r.c.writables]],
   out |-> r.out]

\* The read methods on a world
AscendOf(w) == Ascend(w.heap, w.trees, w.x.tree)
DescendOf(w) == Descend(w.heap, w.trees, w.x.tree)
GetOf(w, key) == Get(w.heap, w.trees, w.x.tree, key)
HasOf(w, key) == Has(w.heap, w.trees, w.x.tree, key)
MinOf(w) == Min(w.heap, w.trees, w.x.tree)
MaxOf(w) == Max(w.heap, w.trees, w.x.tree)
LenIn(w) == LenOf(w.trees, w.x.tree)

\* The number of levels under node n, along its first children
RECURSIVE height(_, _)
height(h, n) ==
  IF n = 0 THEN 0
  ELSE IF Len(h[n].children) = 0 THEN 1 ELSE 1 + height(h, h[n].children[1])

\* The keys of a sequence of items
KeysOfSeq(s) == [i \in 1..Len(s) |-> s[i][1]]

StrictlyIncreasing(s) == \A i \in 1..Len(s) - 1 : Less(s[i], s[i + 1])


\* ------------------------------------------------------------------ claims
\* The tree the scenario writes: the BTree's, the first Builder's, the BTreeG
Current == IF impl \in {"Builder", "Builders"} THEN builders[1].tree ELSE btree.tree

\* What Ascend and Descend deliver from the tree the scenario writes
Ascended ==
  IF impl = "BTreeG" THEN AscendG(heap, trees, Current).out
  ELSE Ascend(heap, trees, Current)

Descended ==
  IF impl = "BTreeG" THEN DescendG(heap, trees, Current).out
  ELSE Descend(heap, trees, Current)

\* C1: after any sequence of ReplaceOrInsert calls on an initially empty
\* BTree, Builder or BTreeG, no call has panicked, Ascend delivers strictly
\* increasing items whose keys are exactly the inserted keys in increasing
\* order, each once, and Descend delivers the reverse of what Ascend delivers.
C1_InsertsAscendSorted ==
  /\ ~panicked
  /\ impl = "BTreeG" =>
       /\ ~AscendG(heap, trees, Current).panic
       /\ ~DescendG(heap, trees, Current).panic
  /\ StrictlyIncreasing(Ascended)
  /\ KeysOfSeq(Ascended) = KeysOfSeq(SortedSeq(ref.cur[1]))
  /\ Descended = Reverse(Ascended)

\* C1 witness: a BTreeG with three levels of nodes after inserts
\* that include the replacement of an item by its twin.
C1_Witness ==
  /\ impl = "BTreeG"
  /\ height(heap, trees[Current].root) = 3
  /\ <<2, 1>> \in ref.cur[1]
  /\ Len(Ascended) = MaxKey


\* C2: in the copy-on-write implementation, after every ReplaceOrInsert,
\* Delete, DeleteMin or DeleteMax through a BTree or a Builder, with degree 2
\* or more, every node reachable from the root has the node structure: at
\* most 2*degree-1 items, at least degree-1 unless it is the root, no
\* children or items+1 children, strictly increasing items, and each item
\* strictly between the items of the children on its two sides.
C2_CowNodeStructure ==
  \A x \in Handles :
    TreeStructure(heap, trees[x.tree].root, trees[x.tree].degree)

\* C2 witness: a BTree of degree 2 whose root has three children after nodes
\* were merged and released to the free list.
C2_Witness ==
  /\ impl = "BTree"
  /\ trees[btree.tree].degree = 2
  /\ trees[btree.tree].root # 0
  /\ Len(heap[trees[btree.tree].root].children) = 3
  /\ pools[1].freelist # <<>>


\* C3: in the generic implementation, after any sequence of ReplaceOrInsert,
\* Delete, DeleteMin and DeleteMax on one BTreeG with its own free list, no
\* call has ended in an out-of-range access and every node reachable from the
\* root has the node structure, the nodes that went through the free list
\* included.
C3_GenericNodeStructure ==
  impl = "BTreeG" => ~panicked /\ Intact


\* What tree t holds is what the reference map R holds
Holds(t, R) ==
  /\ Ascend(heap, trees, t) = SortedSeq(R)
  /\ LenOf(trees, t) = Cardinality(R)

\* C4: copy-on-write isolation.  Whatever ReplaceOrInsert, Delete, DeleteMin,
\* DeleteMax and Build calls the Builders have made since, the snapshot S
\* that Build returned and NewBuilder was given has the length and delivers
\* the items it had when it was built, and each Builder's tree (what its
\* Build returns) holds S's items with that Builder's own mutations applied
\* and none of the other Builder's.
C4_SnapshotIsolation ==
  impl = "Builders" =>
    /\ \A i \in 1..Len(snaps) : Holds(snaps[i], ref.snap[i])
    /\ \A b \in 1..Len(builders) : Holds(builders[b].tree, ref.cur[b])

\* C4 witness: S has two levels of nodes, and both Builders derived from it
\* have made MaxCalls calls that left them different from S and from each
\* other.
C4_Witness ==
  /\ impl = "Builders" /\ Len(builders) = 2
  /\ calls = <<MaxCalls, MaxCalls>>
  /\ height(heap, trees[snaps[1]].root) = 2
  /\ ref.cur[1] # ref.cur[2]
  /\ ref.cur[1] # ref.snap[1]
  /\ ref.cur[2] # ref.snap[1]


\* The BTree (0) or the Builders (1, 2) of the state, and for each the struct
\* and the reference map of its tree
HandleIds ==
  IF impl = "BTree" THEN {0}
  ELSE IF impl \in {"Builder", "Builders"} THEN 1..Len(builders)
  ELSE {}

Handle(i) == IF i = 0 THEN btree ELSE builders[i]

RefOf(i) == ref.cur[IF i = 0 THEN 1 ELSE i]

\* The positions of s that hold an item equal to item under the ordering
Stored(s, item) == {i \in 1..Len(s) : ~Less(s[i], item) /\ ~Less(item, s[i])}

Deleters == {"Delete", "DeleteMin", "DeleteMax"}

\* C5: for a BTree and a Builder of the copy-on-write implementation, Len()
\* is the number of items Ascend delivers, now and after any next call;
\* ReplaceOrInsert raises Len() by 1 when no equal item was stored and leaves
\* it when one was; Delete, DeleteMin and DeleteMax lower it by 1 when they
\* return an item and leave it when they report not found.
C5_LenCountsItems ==
  \A i \in HandleIds :
    LET w == World(Handle(i))
        a == AscendOf(w) IN
    /\ LenIn(w) = Len(a)
    /\ \A item \in Inputs :
         LET r == Do(w, "ReplaceOrInsert", item) IN
         /\ LenIn(r.w) = LenIn(w) + (IF Stored(a, item) = {} THEN 1 ELSE 0)
         /\ LenIn(r.w) = Len(AscendOf(r.w))
    /\ \A op \in Deleters : \A item \in Operands(op, Inputs) :
         LET r == Do(w, op, item) IN
         /\ LenIn(r.w) = LenIn(w) - (IF r.out # nilItem THEN 1 ELSE 0)
         /\ LenIn(r.w) = Len(AscendOf(r.w))

\* C5 witness: a Builder whose tree has fewer items than the snapshot it
\* built before, which still has three items or more in two levels.
C5_Witness ==
  /\ impl = "Builder" /\ snaps # <<>>
  /\ LenOf(trees, builders[1].tree) < LenOf(trees, snaps[1])
  /\ LenOf(trees, builders[1].tree) >= 3
  /\ height(heap, trees[builders[1].tree].root) = 2


\* C6: in the copy-on-write implementation the tree agrees with a reference
\* ordered map: Get(k) returns the item most recently inserted with key k and
\* not deleted since, nil when there is none, and Has(k) is true exactly when
\* Get(k) finds an item; ReplaceOrInsert(x) then Get(x) returns x, Delete(x)
\* right after returns x, and Get(x) after that finds nothing.
C6_GetAgreesWithMap ==
  \A i \in HandleIds :
    LET w == World(Handle(i)) IN
    /\ \A x \in Inputs :
         /\ GetOf(w, x) = RefGet(RefOf(i), x[1])
         /\ HasOf(w, x) <=> (\E y \in RefOf(i) : y[1] = x[1])
    /\ \A x \in Inputs :
         LET r1 == Do(w, "ReplaceOrInsert", x)
             r2 == Do(r1.w, "Delete", x) IN
         /\ GetOf(r1.w, x) = x /\ HasOf(r1.w, x)
         /\ r2.out = x
         /\ GetOf(r2.w, x) = nilItem /\ ~HasOf(r2.w, x)

\* C6 witness: the twin that replaced item 2 sits in the root of a tree of
\* two levels or more, above the leaves, in a tree that was deleted from.
C6_Witness ==
  \E i \in HandleIds :
    LET root == trees[Handle(i).tree].root IN
    /\ root # 0
    /\ Len(heap[root].children) > 0
    /\ \E j \in 1..Len(heap[root].items) : heap[root].items[j] = <<2, 1>>
    /\ pools[Handle(i).freelist].freelist # <<>>

\* C8: Min() and Max() return the first item Ascend and Descend deliver, the
\* smallest and the largest stored; on a tree without items, with no root or
\* with an empty leaf as root, they report not found (nil), and on a tree
\* with no root Get reports not found for every key and Len() is 0.
C8_MinMax ==
  \A i \in HandleIds :
    LET w == World(Handle(i))
        a == AscendOf(w)
        d == DescendOf(w) IN
    /\ MinOf(w) = (IF a = <<>> THEN nilItem ELSE a[1])
    /\ MaxOf(w) = (IF d = <<>> THEN nilItem ELSE d[1])
    /\ MinOf(w) = RefMin(RefOf(i)) /\ MaxOf(w) = RefMax(RefOf(i))
    /\ trees[w.x.tree].root = 0 =>
         /\ LenIn(w) = 0
         /\ \A x \in Inputs : GetOf(w, x) = nilItem

\* C8 witness: a BTree emptied by deletes, whose root is an empty leaf left
\* after the root above it was released.
C8_Witness ==
  /\ impl = "BTree"
  /\ trees[btree.tree].root # 0
  /\ heap[trees[btree.tree].root].items = <<>>
  /\ pools[1].freelist # <<>>


\* The items a loop of op (DeleteMin or DeleteMax) returns until it reports
\* not found, after those in acc, and the world the loop leaves
RECURSIVE Drain(_, _, _)
Drain(w, op, acc) ==
  LET r == Do(w, op, nilItem) IN
  IF r.out = nilItem THEN [w |-> r.w, out |-> acc]
  ELSE Drain(r.w, op, Append(acc, r.out))

\* Snapshot s delivers in world w what it delivers in the state
SameSnapshot(w, s) ==
  /\ Ascend(w.heap, w.trees, s) = Ascend(heap, trees, s)
  /\ LenOf(w.trees, s) = LenOf(trees, s)

\* C9: in the copy-on-write implementation DeleteMin returns the smallest
\* stored item and DeleteMax the largest; DeleteMin repeated until it
\* reports not found returns the stored items in strictly increasing order,
\* DeleteMax in strictly decreasing order, each once, and the tree is left
\* empty; through a Builder the loop leaves a snapshot built before it with
\* all its items.
C9_DeleteMinMaxDrain ==
  \A i \in HandleIds :
    LET w == World(Handle(i))
        lo == Drain(w, "DeleteMin", <<>>)
        hi == Drain(w, "DeleteMax", <<>>) IN
    /\ Do(w, "DeleteMin", nilItem).out = RefMin(RefOf(i))
    /\ Do(w, "DeleteMax", nilItem).out = RefMax(RefOf(i))
    /\ lo.out = AscendOf(w) /\ StrictlyIncreasing(lo.out)
    /\ hi.out = DescendOf(w) /\ StrictlyIncreasing(Reverse(hi.out))
    /\ lo.out = SortedSeq(RefOf(i))
    /\ AscendOf(lo.w) = <<>> /\ LenIn(lo.w) = 0
    /\ AscendOf(hi.w) = <<>> /\ LenIn(hi.w) = 0
    /\ \A s \in 1..Len(snaps) :
         SameSnapshot(lo.w, snaps[s]) /\ SameSnapshot(hi.w, snaps[s])

\* C9 witness: a Builder that still shares every node with the snapshot it
\* built, a tree of two levels with four items or more.
C9_Witness ==
  /\ impl = "Builder" /\ snaps # <<>>
  /\ trees[builders[1].tree].root = trees[snaps[1]].root
  /\ builders[1].tracking
  /\ height(heap, trees[snaps[1]].root) = 2
  /\ LenOf(trees, snaps[1]) >= 4

\* C10: in the copy-on-write implementation, Delete of a key that is not
\* stored, and Delete, DeleteMin and DeleteMax on a tree without items,
\* report not found (nil) and leave Len() and what Ascend delivers as they
\* were.
C10_DeleteAbsent ==
  \A i \in HandleIds :
    LET w == World(Handle(i))
        a == AscendOf(w) IN
    /\ \A x \in Inputs :
         Stored(a, x) = {} =>
           LET r == Do(w, "Delete", x) IN
           /\ r.out = nilItem
           /\ AscendOf(r.w) = a
           /\ LenIn(r.w) = LenIn(w)
    /\ a = <<>> =>
         \A op \in Deleters : \A x \in Operands(op, Inputs) :
           LET r == Do(w, op, x) IN
           /\ r.out = nilItem
           /\ AscendOf(r.w) = <<>>
           /\ LenIn(r.w) = 0

\* C10 witness: a BTree where the Delete of a key that is not stored merges
\* nodes on its way down, so that the tree has fewer nodes afterwards.
C10_Witness ==
  /\ impl = "BTree"
  /\ \E x \in Inputs :
       LET w == World(btree)
           r == Do(w, "Delete", x) IN
       /\ Stored(AscendOf(w), x) = {}
       /\ Len(Reach(r.w.heap, r.w.trees[r.w.x.tree].root))
            < Len(Reach(heap, trees[btree.tree].root))


\* ReplaceOrInsert(item) on a tree that delivered `pre` returned `out` and
\* left a tree that delivers `post`: an equal item stored is returned and
\* replaced where it was, otherwise nothing is returned and the item is
\* added at its place in the order; no two items of post are equal.
Replaced(pre, item, out, post) ==
  /\ IF Stored(pre, item) # {}
       THEN \E j \in Stored(pre, item) :
              out = pre[j] /\ post = [pre EXCEPT ![j] = item]
       ELSE /\ out = nilItem
            /\ \E j \in 0..Len(pre) : post = insertAt(pre, j, item)
  /\ StrictlyIncreasing(post)

\* C7: ReplaceOrInsert(item) on a tree that stores an item equal to it
\* returns that item as found, puts the new item in its place and keeps the
\* number of items; otherwise it reports no previous item and adds the item;
\* and the tree never stores two equal items.  Stated for the BTree, the
\* Builders and the BTreeG of the state.
C7_ReplaceOrInsertReplaces ==
  /\ \A i \in HandleIds : \A item \in Inputs :
       LET w == World(Handle(i))
           r == Do(w, "ReplaceOrInsert", item) IN
       /\ Replaced(AscendOf(w), item, r.out, AscendOf(r.w))
       /\ LenIn(r.w) = Len(AscendOf(r.w))
  /\ (impl = "BTreeG" /\ ~panicked /\ Intact) =>
       \A item \in Inputs :
         LET t == btree.tree
             pre == AscendG(heap, trees, t).out
             r == ReplaceOrInsertG(ContextG, t, item) IN
         /\ ~r.c.panic
         /\ TreeShaped(r.c.heap, r.c.trees[t].root)
         /\ Replaced(pre, item, r.out, AscendG(r.c.heap, r.c.trees, t).out)
         /\ r.found <=> (Stored(pre, item) # {})
         /\ LenG(r.c.trees, t) = Len(AscendG(r.c.heap, r.c.trees, t).out)


\* The bounds the range methods are given: every item of the scenario,
\* stored or not, and an item above all of them
Pivots == Inputs \cup {<<MaxKey + 1, 0>>}

\* The items of the sequence s with lo <= x < hi, with x < p, with x >= p,
\* with x <= p and with x > p under the ordering, in the order of s
FromTo(s, lo, hi) == SelectSeq(s, LAMBDA x : ~Less(x, lo) /\ Less(x, hi))
Under(s, p) == SelectSeq(s, LAMBDA x : Less(x, p))
NotUnder(s, p) == SelectSeq(s, LAMBDA x : ~Less(x, p))
NotOver(s, p) == SelectSeq(s, LAMBDA x : ~Less(p, x))
Over(s, p) == SelectSeq(s, LAMBDA x : Less(p, x))

\* No node reachable from root is reachable from its own children: every
\* walk down from root ends
Acyclic(h, root) ==
  \A i \in 1..Len(Reach(h, root)) :
    LET n == Reach(h, root)[i]
        below == Dfs(h, h[n].children, <<>>, {}) IN
    \A j \in 1..Len(below) : below[j] # n

\* The BTreeG of the state after calls that all returned, with nodes a walk
\* from the root gets through
Walkable ==
  impl = "BTreeG" /\ ~panicked /\ Acyclic(heap, trees[btree.tree].root)

\* The ascending range methods of a BTree and of the Builders deliver the
\* stored items of the range, in increasing order
AscendRangesCow ==
  \A i \in HandleIds :
    LET t == Handle(i).tree
        s == SortedSeq(RefOf(i)) IN
    /\ \A lo \in Pivots : \A hi \in Pivots :
         AscendRange(heap, trees, t, lo, hi, 0) = FromTo(s, lo, hi)
    /\ \A p \in Pivots :
         /\ AscendLessThan(heap, trees, t, p, 0) = Under(s, p)
         /\ AscendGreaterOrEqual(heap, trees, t, p, 0) = NotUnder(s, p)

\* The same of the BTreeG of the state, none of the calls failing
AscendRangesG ==
  LET t == btree.tree
      s == SortedSeq(ref.cur[1]) IN
  /\ \A lo \in Pivots : \A hi \in Pivots :
       LET r == AscendRangeG(heap, trees, t, lo, hi, 0) IN
       ~r.panic /\ r.out = FromTo(s, lo, hi)
  /\ \A p \in Pivots :
       LET lt == AscendLessThanG(heap, trees, t, p, 0)
           ge == AscendGreaterOrEqualG(heap, trees, t, p, 0) IN
       /\ ~lt.panic /\ lt.out = Under(s, p)
       /\ ~ge.panic /\ ge.out = NotUnder(s, p)

\* C11: for any tree contents, degree and bounds, with an iterator that always
\* returns true, AscendRange(lo, hi) delivers exactly the stored items x with
\* lo <= x < hi, AscendLessThan(p) those with x < p and AscendGreaterOrEqual(p)
\* those with x >= p, each once and in strictly increasing order; on a BTree,
\* on the Builders and on a BTreeG.
C11_AscendRanges ==
  /\ AscendRangesCow
  /\ Walkable => AscendRangesG

\* The descending range methods of a BTree and of the Builders deliver the
\* stored items of the range, in decreasing order
DescendRangesCow ==
  \A i \in HandleIds :
    LET t == Handle(i).tree
        s == Reverse(SortedSeq(RefOf(i))) IN
    /\ \A le \in Pivots : \A gt \in Pivots :
         DescendRange(heap, trees, t, le, gt, 0) = Over(NotOver(s, le), gt)
    /\ \A p \in Pivots :
         /\ DescendLessOrEqual(heap, trees, t, p, 0) = NotOver(s, p)
         /\ DescendGreaterThan(heap, trees, t, p, 0) = Over(s, p)

\* The same of the BTreeG of the state, none of the calls failing
DescendRangesG ==
  LET t == btree.tree
      s == Reverse(SortedSeq(ref.cur[1])) IN
  /\ \A le \in Pivots : \A gt \in Pivots :
       LET r == DescendRangeG(heap, trees, t, le, gt, 0) IN
       ~r.panic /\ r.out = Over(NotOver(s, le), gt)
  /\ \A p \in Pivots :
       LET le == DescendLessOrEqualG(heap, trees, t, p, 0)
           gt == DescendGreaterThanG(heap, trees, t, p, 0) IN
       /\ ~le.panic /\ le.out = NotOver(s, p)
       /\ ~gt.panic /\ gt.out = Over(s, p)

\* C12: for any tree contents, degree and bounds, with an iterator that always
\* returns true, DescendRange(lessOrEqual, greaterThan) delivers exactly the
\* stored items x with greaterThan < x <= lessOrEqual, DescendLessOrEqual(p)
\* those with x <= p and DescendGreaterThan(p) those with x > p, each once and
\* in strictly decreasing order; on a BTree, on the Builders and on a BTreeG.
C12_DescendRanges ==
  /\ DescendRangesCow
  /\ Walkable => DescendRangesG


\* The keys on which the callback of a traversal returns false
Untils == {x[1] : x \in Inputs}

\* The sequence s up to and including its first item with key u; all of s when
\* it has none
UpTo(s, u) ==
  LET at == {i \in 1..Len(s) : s[i][1] = u} IN
  IF at = {} THEN s
  ELSE SubSeq(s, 1, CHOOSE i \in at : \A j \in at : i <= j)

\* The bounds of the stopped traversals: one item of every key of the
\* scenario and one above all of them
Bounds == {<<k, 0>> : k \in Untils \cup {MaxKey + 1}}

\* A traversal Stopped(u), its callback returning false on key u, delivers
\* for every key u of delivered, which it delivers with a callback that always
\* returns true, the items of delivered up to the first of key u and no more
StopsAt(delivered, Stopped(_)) ==
  \A u \in {delivered[k][1] : k \in 1..Len(delivered)} :
    Stopped(u) = UpTo(delivered, u)

\* So do the eight traversals of a BTree or a Builder, ranges going from p to
\* q >= p
EarlyStopCow ==
  \A i \in HandleIds :
    LET t == Handle(i).tree IN
    /\ StopsAt(AscendUntil(heap, trees, t, 0),
               LAMBDA u : AscendUntil(heap, trees, t, u))
    /\ StopsAt(DescendUntil(heap, trees, t, 0),
               LAMBDA u : DescendUntil(heap, trees, t, u))
    /\ \A p \in Bounds :
         /\ StopsAt(AscendLessThan(heap, trees, t, p, 0),
                    LAMBDA u : AscendLessThan(heap, trees, t, p, u))
         /\ StopsAt(AscendGreaterOrEqual(heap, trees, t, p, 0),
                    LAMBDA u : AscendGreaterOrEqual(heap, trees, t, p, u))
         /\ StopsAt(DescendLessOrEqual(heap, trees, t, p, 0),
                    LAMBDA u : DescendLessOrEqual(heap, trees, t, p, u))
         /\ StopsAt(DescendGreaterThan(heap, trees, t, p, 0),
                    LAMBDA u : DescendGreaterThan(heap, trees, t, p, u))
         /\ \A q \in {b \in Bounds : ~Less(b, p)} :
              /\ StopsAt(AscendRange(heap, trees, t, p, q, 0),
                         LAMBDA u : AscendRange(heap, trees, t, p, q, u))
              /\ StopsAt(DescendRange(heap, trees, t, q, p, 0),
                         LAMBDA u : DescendRange(heap, trees, t, q, p, u))

\* So do the eight traversals of the BTreeG of the state
EarlyStopG ==
  LET t == btree.tree IN
  /\ StopsAt(AscendUntilG(heap, trees, t, 0).out,
             LAMBDA u : AscendUntilG(heap, trees, t, u).out)
  /\ StopsAt(DescendUntilG(heap, trees, t, 0).out,
             LAMBDA u : DescendUntilG(heap, trees, t, u).out)
  /\ \A p \in Bounds :
       /\ StopsAt(AscendLessThanG(heap, trees, t, p, 0).out,
                  LAMBDA u : AscendLessThanG(heap, trees, t, p, u).out)
       /\ StopsAt(AscendGreaterOrEqualG(heap, trees, t, p, 0).out,
                  LAMBDA u : AscendGreaterOrEqualG(heap, trees, t, p, u).out)
       /\ StopsAt(DescendLessOrEqualG(heap, trees, t, p, 0).out,
                  LAMBDA u : DescendLessOrEqualG(heap, trees, t, p, u).out)
       /\ StopsAt(DescendGreaterThanG(heap, trees, t, p, 0).out,
                  LAMBDA u : DescendGreaterThanG(heap, trees, t, p, u).out)
       /\ \A q \in {b \in Bounds : ~Less(b, p)} :
            /\ StopsAt(AscendRangeG(heap, trees, t, p, q, 0).out,
                       LAMBDA u : AscendRangeG(heap, trees, t, p, q, u).out)
            /\ StopsAt(DescendRangeG(heap, trees, t, q, p, 0).out,
                       LAMBDA u : DescendRangeG(heap, trees, t, q, p, u).out)

\* C13: in every Ascend*/Descend* call the items the callback receives, up to
\* and including the one on which it returns false, are a prefix of what the
\* same call delivers with a callback that always returns true, and the
\* callback receives nothing after it, at whatever depth the stop happens.
C13_EarlyStopPrefix ==
  /\ EarlyStopCow
  /\ Walkable => EarlyStopG

\* A tree of three levels whose ascending and descending traversals are
\* stopped on an item of a leaf, with items left undelivered
C13_Witness ==
  \E i \in HandleIds : \E u \in Untils :
    LET x == Handle(i)
        t == x.tree
        up == AscendUntil(heap, trees, t, u)
        down == DescendUntil(heap, trees, t, u) IN
    /\ impl # "BTreeG"
    /\ height(heap, trees[t].root) >= 3
    /\ \E n \in 1..Len(heap) :
         /\ heap[n].children = <<>>
         /\ \E k \in 1..Len(heap[n].items) : heap[n].items[k][1] = u
         /\ \E k \in 1..Len(Reach(heap, trees[t].root)) :
              Reach(heap, trees[t].root)[k] = n
    /\ Len(up) > 1 /\ Len(up) < trees[t].length
    /\ Len(down) > 1 /\ Len(down) < trees[t].length
    /\ up[Len(up)][1] = u /\ down[Len(down)][1] = u


\* C14: New, NewWithFreeList, NewImmutable, NewG, NewOrderedG and
\* NewWithFreeListG panic on a degree <= 1 and return no tree, return a tree
\* of the degree asked for on every degree >= 2, and every tree the program
\* holds afterwards, whatever it calls, has the degree asked for.
C14_ConstructorsCheckDegree ==
  \A k \in 1..Len(ref.asked) :
    /\ ref.asked[k] <= 1 =>
         /\ impl = "none" /\ panicked
         /\ trees = <<>> /\ btree.tree = 0 /\ builders = <<>> /\ snaps = <<>>
    /\ ref.asked[k] >= 2 =>
         /\ impl # "none"
         /\ trees # <<>>
         /\ \A t \in 1..Len(trees) : trees[t].degree = ref.asked[k]

\* A constructor refused the degree 1
C14_Witness == impl = "none" /\ panicked /\ ref.asked = <<1>>

\* A BTree, a Builder or a BTreeG built with degree MaxDegree has, after calls
\* of its own, a root of more items than a smaller degree allows
C14_Accepted ==
  /\ ref.asked = <<MaxDegree>>
  /\ impl \in {"BTree", "Builder", "BTreeG"}
  /\ trees[Current].root # 0
  /\ Len(heap[trees[Current].root].items) > 2 * (MaxDegree - 1) - 1
  /\ trees[Current].degree = MaxDegree


\* BTree.ReplaceOrInsert(nil) and Builder.ReplaceOrInsert(nil) panic, and leave
\* the nodes, the free lists, the items and Len() of the tree and the items of
\* every tree struct there was, the snapshots among them, as they were
NilRejectedCow ==
  \A i \in HandleIds :
    LET x == Handle(i)
        wb == IF "copied" \in DOMAIN x THEN writableBTree(x, trees)
              ELSE [x |-> x, trees |-> trees]
        c == [Context(wb.x) EXCEPT !.trees = wb.trees]
        r == replaceOrInsert(c, wb.x.tree, nilItem) IN
    /\ r.panic
    /\ r.c.heap = heap /\ r.c.pools = pools
    /\ Ascend(r.c.heap, r.c.trees, wb.x.tree) = Ascend(heap, trees, x.tree)
    /\ LenOf(r.c.trees, wb.x.tree) = LenOf(trees, x.tree)
    /\ \A t \in 1..Len(trees) :
         /\ r.c.trees[t] = trees[t]
         /\ Ascend(r.c.heap, r.c.trees, t) = Ascend(heap, trees, t)

\* BTreeG.ReplaceOrInsert(nil) panics and leaves the nodes, the free list and
\* the tree as they were
NilRejectedG ==
  LET r == ReplaceOrInsertG(ContextG, btree.tree, nilItem) IN
  /\ r.c.panic
  /\ r.c.heap = heap /\ r.c.pools = pools /\ r.c.trees = trees

\* C15: ReplaceOrInsert of a nil item panics before anything changes: the
\* items and Len() of the tree, the free list and, for a Builder, every
\* snapshot built so far are as before the call; for BTree.ReplaceOrInsert,
\* Builder.ReplaceOrInsert and BTreeG.ReplaceOrInsert, on empty and non-empty
\* trees.
C15_NilItemRejected ==
  /\ NilRejectedCow
  /\ (impl = "BTreeG" /\ ~panicked /\ Intact) => NilRejectedG


\* The BTreeG of the state after calls that all returned
Returned == impl = "BTreeG" /\ ~panicked

\* The tree struct t of c holds nothing: Len() is 0, Min, Max, Get and Has
\* find nothing and Ascend and Descend deliver nothing
Empty(c, t) ==
  /\ LenG(c.trees, t) = 0
  /\ ~MinG(c.heap, c.trees, t).found
  /\ ~MaxG(c.heap, c.trees, t).found
  /\ \A key \in Inputs : ~GetG(c, t, key).found /\ ~HasG(c, t, key)
  /\ AscendG(c.heap, c.trees, t) = noRootG
  /\ DescendG(c.heap, c.trees, t) = noRootG

\* C16: right after BTreeG.Clear(addNodesToFreelist), for either value of the
\* flag, Len() is 0, Min, Max and Get report not found, Has is false and
\* Ascend and Descend deliver nothing; the degree and the free list of the tree
\* are the ones it had.  The tree a Clear left without root is empty whatever
\* the calls before it.
C16_ClearRemovesAll ==
  Returned =>
    /\ \A addNodesToFreelist \in BOOLEAN :
         LET c == ClearG(ContextG, btree.tree, addNodesToFreelist) IN
         /\ Empty(c, btree.tree)
         /\ c.trees[btree.tree].degree = trees[btree.tree].degree
         /\ c.trees[btree.tree].freelist = trees[btree.tree].freelist
    /\ trees[btree.tree].root = 0 =>
         Empty(ContextG, btree.tree) /\ ref.cur[1] = {}

\* A BTreeG that Clear left without root after a delete had released a node
\* to its free list
C16_Witness ==
  /\ Returned
  /\ trees[btree.tree].root = 0
  /\ pools[trees[btree.tree].freelist].freelist # <<>>


\* C17: BTreeG.Clear(true) on a tree of n nodes whose free list holds k nodes
\* and has capacity c leaves min(c, k + n) nodes in the free list;
\* Clear(false) leaves the free list as it was.
C17_ClearFillsFreeList ==
  (Returned /\ Intact) =>
    LET t == btree.tree
        f == trees[t].freelist
        k == Len(pools[f].freelist)
        n == Len(Reach(heap, trees[t].root))
        added == ClearG(ContextG, t, TRUE)
        dropped == ClearG(ContextG, t, FALSE) IN
    /\ Len(added.pools[f].freelist)
         = IF pools[f].cap < k + n THEN pools[f].cap ELSE k + n
    /\ dropped.pools = pools


\* FreeList.newNode and FreeList.freeNode called on the free list p of the
\* state: freeNode(n) on a full list changes nothing and on another list adds
\* n at the end; newNode on an empty list allocates a node and leaves the list
\* empty, and on another list takes the last node, the one freeNode added last
PoolCallsCow(p) ==
  LET c == [Context(btree) EXCEPT !.freelist = p]
      f == pools[p].freelist
      new == FreeList_newNode(c) IN
  /\ \A n \in 1..Len(heap) :
       LET freed == FreeList_freeNode(c, n) IN
       /\ Len(f) >= pools[p].cap => freed = c
       /\ Len(f) < pools[p].cap =>
            /\ freed = [c EXCEPT !.pools[p].freelist = f \o <<n>>]
            /\ FreeList_newNode(freed) = [c |-> c, n |-> n]
  /\ f = <<>> =>
       /\ new.n \notin 1..Len(heap)
       /\ new.c.heap[new.n] = emptyNode
       /\ new.c.pools = pools
       /\ SubSeq(new.c.heap, 1, Len(heap)) = heap
  /\ f # <<>> =>
       /\ new.n = f[Len(f)]
       /\ new.c = [c EXCEPT !.pools[p].freelist = SubSeq(f, 1, Len(f) - 1)]

\* The same of FreeListG.newNode and FreeListG.freeNode
PoolCallsG(p) ==
  LET c == ContextG
      f == pools[p].freelist
      new == FreeListG_newNode(c, p) IN
  /\ \A n \in 1..Len(heap) :
       LET freed == FreeListG_freeNode(c, p, n) IN
       /\ Len(f) >= pools[p].cap => freed = c
       /\ Len(f) < pools[p].cap =>
            /\ freed = [c EXCEPT !.pools[p].freelist = f \o <<n>>]
            /\ FreeListG_newNode(freed, p) = [c |-> c, n |-> n]
  /\ f = <<>> =>
       /\ new.n \notin 1..Len(heap)
       /\ new.c.heap[new.n] = emptyNodeG
       /\ new.c.pools = pools
       /\ SubSeq(new.c.heap, 1, Len(heap)) = heap
  /\ f # <<>> =>
       /\ new.n = f[Len(f)]
       /\ new.c = [c EXCEPT !.pools[p].freelist = SubSeq(f, 1, Len(f) - 1)]

\* C18: a FreeList and a FreeListG never hold more nodes than the size they
\* were created with, and none when that size is 0; freeNode on a full pool
\* discards the node and leaves the pool unchanged and on a non-full pool adds
\* exactly that node; newNode on an empty pool returns a freshly allocated node
\* and leaves the pool empty and on a non-empty pool removes and returns the
\* most recently pooled node.
C18_PoolCapacity ==
  \A p \in 1..Len(pools) :
    /\ Len(pools[p].freelist) <= pools[p].cap
    /\ pools[p].cap = 0 => pools[p].freelist = <<>>
    /\ impl \in {"BTree", "Builder"} => PoolCallsCow(p)
    /\ impl = "BTreeG" => PoolCallsG(p)

\* A BTree whose free list of size MaxFreeList is full
C18_Witness ==
  /\ impl = "BTree"
  /\ pools[btree.freelist].cap = MaxFreeList
  /\ Len(pools[btree.freelist].freelist) = MaxFreeList

\* A BTreeG whose free list of size MaxFreeList is full
C18_WitnessG ==
  /\ impl = "BTreeG"
  /\ pools[trees[btree.tree].freelist].cap = MaxFreeList
  /\ Len(pools[trees[btree.tree].freelist].freelist) = MaxFreeList


\* The statements of newNode and freeNode that read or write f.freelist
Locked ==
  {"newNode_index", "newNode_take", "newNode_nil", "newNode_reslice",
   "newNode_Unlock", "newNode_Unlock_new", "freeNode_if", "freeNode_append",
   "freeNode_Unlock"}

\* The node a freeNode call of goroutine g carries and has not stored
Carried(g) ==
  IF calls[g].pc \in {"freeNode_Lock", "freeNode_if", "freeNode_append"}
    THEN {calls[g].n} ELSE {}

\* C19: under every interleaving of goroutines calling FreeListG.newNode and
\* FreeListG.freeNode, a goroutine reads and writes the pool only while it
\* holds the mutex, the pool never holds more than its capacity, no call
\* fails, no node is held by two goroutines or held and pooled at once, so a
\* pooled node is returned by at most one newNode call, and while no call is
\* between Lock and Unlock the pool holds each node freeNode accepted and
\* newNode has not returned exactly once and nothing else.
C19_FreeListAtomic ==
  impl = "FreeListG" =>
    /\ ~panicked
    /\ \A g \in Goroutines : calls[g].pc \in Locked => pools[1].mu = g
    /\ Len(pools[1].freelist) <= pools[1].cap
    /\ \A g \in Goroutines : \A h \in Goroutines \ {g} :
         (ref.held[g] \cup Carried(g)) \cap (ref.held[h] \cup Carried(h)) = {}
    /\ \A g \in Goroutines :
         (ref.held[g] \cup Carried(g)) \cap ref.pooled = {}
    /\ pools[1].mu = 0 =>
         /\ {pools[1].freelist[i] : i \in 1..Len(pools[1].freelist)} = ref.pooled
         /\ Len(pools[1].freelist) = Cardinality(ref.pooled)

\* One goroutine waits for the mutex in freeNode while the other, inside
\* newNode, takes a node from the full pool
C19_Witness ==
  /\ impl = "FreeListG"
  /\ pools[1].cap = MaxFreeList
  /\ \E g \in Goroutines : \E h \in Goroutines \ {g} :
       /\ calls[g].pc = "newNode_nil"
       /\ calls[h].pc = "freeNode_Lock"
       /\ ref.held[g] # {}


\* The nodes reachable from the root of the tree struct t
NodesOf(t) == {Reach(heap, trees[t].root)[i] : i \in 1..Len(Reach(heap, trees[t].root))}

\* No node is reachable from the trees of two goroutines
NoSharedNode ==
  \A g \in Goroutines : \A h \in Goroutines \ {g} :
    NodesOf(snaps[g]) \cap NodesOf(snaps[h]) = {}

\* C20: two BTreeG sharing one FreeListG, each written by its own goroutine:
\* whatever the order of their calls, the node the shared pool hands out next
\* carries no items, no children and no tree, no node is reachable from both
\* trees, and each tree holds exactly the items of its own calls.
C20_SharedFreeList ==
  (impl = "BTreeGs" /\ ~panicked) =>
    /\ \A i \in 1..Len(pools[1].freelist) :
         heap[pools[1].freelist[i]] = emptyNodeG
    /\ NoSharedNode
    /\ \A g \in Goroutines :
         Acyclic(heap, trees[snaps[g]].root) =>
           /\ AscendG(heap, trees, snaps[g]).out = SortedSeq(ref.cur[g])
           /\ LenG(trees, snaps[g]) = Cardinality(ref.cur[g])




\* --------------------------- FreeList of the copy-on-write trees, two writers
\* f := NewFreeList(size) given to NewWithFreeList twice; goroutine g is the
\* writer of the g-th tree.  FreeList has no mutex, so the statements of
\* newNode and freeNode of the two writers interleave freely: calls[g] is the
\* statement g is at with its locals, ref.held[g] the nodes the tree of g got
\* from newNode and has not released, ref.pooled the nodes freeNode accepted
\* that newNode has not returned since, and ref.overlapped tells whether a
\* call ever began while the other writer was inside one.  A run is followed
\* up to its first panic or its first state with an unsound pool.

\* The nodes new(node) allocates for the two writers
MaxAllocs == 2

\* len(f.freelist) < cap(f.freelist) taken as true
hasRoomAlways(f) == TRUE

\* len(f.freelist) < cap(f.freelist)
hasRoom(f) == Len(f.freelist) < f.cap

\* The node a freeNode call of writer g carries and has not stored
CarriedCow(g) ==
  IF calls[g].pc \in {"if", "len", "append"} THEN {calls[g].n} ELSE {}

\* No call fails, the pool holds no more than its capacity, no node is with
\* two writers or with a writer and in the pool, and between calls the pool
\* holds each accepted node exactly once and nothing else
PoolSound ==
  /\ ~panicked
  /\ Len(pools[1].freelist) <= pools[1].cap
  /\ \A g \in Goroutines : \A h \in Goroutines \ {g} :
       (ref.held[g] \cup CarriedCow(g)) \cap (ref.held[h] \cup CarriedCow(h)) = {}
  /\ \A g \in Goroutines : (ref.held[g] \cup CarriedCow(g)) \cap ref.pooled = {}
  /\ (\A g \in Goroutines : calls[g].pc = "idle") =>
       /\ {pools[1].freelist[i] : i \in 1..Len(pools[1].freelist)} = ref.pooled
       /\ Len(pools[1].freelist) = Cardinality(ref.pooled)

InitFreeList ==
  /\ impl = "FreeList"
  /\ heap = <<>>
  /\ trees = <<>>
  /\ \E size \in 0..MaxFreeList : pools = <<NewFreeList(size)>>
  /\ btree = [tree |-> 0, writables |-> {}, tracking |-> FALSE, freelist |-> 0]
  /\ builders = <<>>
  /\ snaps = <<>>
  /\ panicked = FALSE
  /\ calls = [g \in Goroutines |-> idle]
  /\ ref = [held |-> [g \in Goroutines |-> {}], pooled |-> {},
            overlapped |-> FALSE]

\* Writer g goes from statement `from` to statement `to`
Steps(g, from, to) ==
  /\ impl = "FreeList" /\ PoolSound
  /\ calls[g].pc = from
  /\ calls' = [calls EXCEPT ![g].pc = to]
  /\ UNCHANGED <<impl, trees, btree, builders, snaps, panicked>>

\* Some writer other than g is inside a call
Busy(g) == \E h \in Goroutines \ {g} : calls[h].pc # "idle"

\* the tree of g calls f.newNode()
FreeList_newNode_call(g) ==
  /\ Steps(g, "idle", "index")
  /\ ref' = [ref EXCEPT !.overlapped = @ \/ Busy(g)]
  /\ UNCHANGED <<heap, pools>>

\* index := len(f.freelist) - 1; if index < 0
FreeList_newNode_index(g) ==
  /\ impl = "FreeList" /\ PoolSound
  /\ calls[g].pc = "index"
  /\ calls' = [calls EXCEPT
                 ![g].index = Len(pools[1].freelist) - 1,
                 ![g].pc = IF Len(pools[1].freelist) - 1 < 0
                             THEN "new" ELSE "take"]
  /\ UNCHANGED <<impl, heap, trees, pools, btree, builders, snaps, panicked, ref>>

\* return new(node)
FreeList_newNode_new(g) ==
  /\ impl = "FreeList" /\ PoolSound
  /\ calls[g].pc = "new"
  /\ calls' = [calls EXCEPT ![g] = idle]
  /\ UNCHANGED <<impl, trees, btree, builders, snaps, panicked>>
  /\ Len(heap) < MaxAllocs
  /\ heap' = Append(heap, emptyNode)
  /\ ref' = [ref EXCEPT !.held[g] = @ \cup {Len(heap) + 1}]
  /\ UNCHANGED pools

\* n = f.freelist[index]; the index is out of range when the slice got
\* shorter since g read its length
FreeList_newNode_take(g) ==
  /\ impl = "FreeList" /\ PoolSound
  /\ calls[g].pc = "take"
  /\ IF calls[g].index + 1 \in 1..Len(pools[1].freelist)
       THEN /\ calls' = [calls EXCEPT
                           ![g].n = pools[1].freelist[calls[g].index + 1],
                           ![g].pc = "nil"]
            /\ UNCHANGED panicked
       ELSE /\ calls' = [calls EXCEPT ![g].pc = "panic"]
            /\ panicked' = TRUE
  /\ UNCHANGED <<impl, heap, trees, pools, btree, builders, snaps, ref>>

\* f.freelist[index] = nil; out of range when the slice got shorter
FreeList_newNode_nil(g) ==
  /\ impl = "FreeList" /\ PoolSound
  /\ calls[g].pc = "nil"
  /\ IF calls[g].index + 1 \in 1..Len(pools[1].freelist)
       THEN /\ calls' = [calls EXCEPT ![g].pc = "reslice"]
            /\ pools' = [pools EXCEPT ![1].freelist =
                 [i \in 1..Len(@) |-> IF i = calls[g].index + 1 THEN 0 ELSE @[i]]]
            /\ UNCHANGED panicked
       ELSE /\ calls' = [calls EXCEPT ![g].pc = "panic"]
            /\ panicked' = TRUE
            /\ UNCHANGED pools
  /\ UNCHANGED <<impl, heap, trees, btree, builders, snaps, ref>>

\* f.freelist = f.freelist[:index]; return n
FreeList_newNode_reslice(g) ==
  /\ impl = "FreeList" /\ PoolSound
  /\ calls[g].pc = "reslice"
  /\ calls' = [calls EXCEPT ![g] = idle]
  /\ pools' = [pools EXCEPT ![1].freelist =
                 [i \in 1..calls[g].index |-> IF i <= Len(@) THEN @[i] ELSE 0]]
  /\ ref' = [ref EXCEPT !.held[g] = @ \cup {calls[g].n},
                        !.pooled = @ \ {calls[g].n}]
  /\ UNCHANGED <<impl, heap, trees, btree, builders, snaps, panicked>>

\* the tree of g calls f.freeNode(n) with a node n it holds
FreeList_freeNode_call(g, n) ==
  /\ impl = "FreeList" /\ PoolSound
  /\ calls[g].pc = "idle"
  /\ n \in ref.held[g]
  /\ calls' = [calls EXCEPT ![g].pc = "if", ![g].n = n]
  /\ ref' = [ref EXCEPT !.held[g] = @ \ {n}, !.overlapped = @ \/ Busy(g)]
  /\ UNCHANGED <<impl, heap, trees, pools, btree, builders, snaps, panicked>>

\* if len(f.freelist) < cap(f.freelist)
FreeList_freeNode_if(g) ==
  /\ impl = "FreeList" /\ PoolSound
  /\ calls[g].pc = "if"
  /\ calls' = [calls EXCEPT
                 ![g] = IF hasRoom(pools[1]) THEN [@ EXCEPT !.pc = "len"]
                                             ELSE idle]
  /\ UNCHANGED <<impl, heap, trees, pools, btree, builders, snaps, panicked, ref>>

\* append(f.freelist, n) reads the slice
FreeList_freeNode_len(g) ==
  /\ impl = "FreeList" /\ PoolSound
  /\ calls[g].pc = "len"
  /\ calls' = [calls EXCEPT ![g].index = Len(pools[1].freelist),
                            ![g].pc = "append"]
  /\ UNCHANGED <<impl, heap, trees, pools, btree, builders, snaps, panicked, ref>>

\* f.freelist = append(f.freelist, n): n goes behind the items read and the
\* slice read, one longer, is stored
FreeList_freeNode_append(g) ==
  /\ impl = "FreeList" /\ PoolSound
  /\ calls[g].pc = "append"
  /\ calls' = [calls EXCEPT ![g] = idle]
  /\ pools' = [pools EXCEPT ![1].freelist =
                 [i \in 1..calls[g].index + 1 |->
                    IF i = calls[g].index + 1 THEN calls[g].n
                    ELSE IF i <= Len(@) THEN @[i] ELSE 0]]
  /\ ref' = [ref EXCEPT !.pooled = @ \cup {calls[g].n}]
  /\ UNCHANGED <<impl, heap, trees, btree, builders, snaps, panicked>>

NextFreeList ==
  \/ \E g \in Goroutines : FreeList_newNode_call(g)
  \/ \E g \in Goroutines : FreeList_newNode_index(g)
  \/ \E g \in Goroutines : FreeList_newNode_new(g)
  \/ \E g \in Goroutines : FreeList_newNode_take(g)
  \/ \E g \in Goroutines : FreeList_newNode_nil(g)
  \/ \E g \in Goroutines : FreeList_newNode_reslice(g)
  \/ \E g \in Goroutines, n \in 0..MaxAllocs : FreeList_freeNode_call(g, n)
  \/ \E g \in Goroutines : FreeList_freeNode_if(g)
  \/ \E g \in Goroutines : FreeList_freeNode_len(g)
  \/ \E g \in Goroutines : FreeList_freeNode_append(g)

SpecFreeList == InitFreeList /\ [][NextFreeList]_vars

\* C21 as stated: two BTrees of NewWithFreeList on one FreeList, each written
\* by its own writer, keep the pool sound under every interleaving of the
\* statements of their newNode and freeNode calls: no pooled node goes to
\* both trees, no released node is lost from a pool with room, and the pool
\* never holds more than its capacity.
C21_SharedFreeListConcurrent == impl = "FreeList" => PoolSound

\* C21 amended: FreeList has no mutex and is documented as not safe for
\* concurrent write access; as long as no newNode or freeNode call began
\* while the other writer was inside one, the pool is sound.
C21_SharedFreeListSerial ==
  (impl = "FreeList" /\ ~ref.overlapped) => PoolSound

\* One writer takes a node out of the pool while the other holds a node,
\* and no two calls have overlapped
C21_Witness ==
  /\ impl = "FreeList"
  /\ ~ref.overlapped
  /\ pools[1].cap = MaxFreeList
  /\ \E g \in Goroutines : \E h \in Goroutines \ {g} :
       /\ calls[g].pc = "nil"
       /\ ref.held[h] # {}




\* ------------------------------------------------------------ read methods
\* A read call: the method, its items a and b (pivots or key) and the key
\* `until` on which its iterator returns FALSE (0: never)
ReadCall(op, a, b, until) == [op |-> op, a |-> a, b |-> b, until |-> until]

\* The read calls the scenario makes
ReadCalls ==
  {ReadCall(op, <<k, 0>>, nilItem, 0) : op \in {"Get", "Has"}, k \in KeysB}
  \cup {ReadCall(op, nilItem, nilItem, 0) : op \in {"Min", "Max", "Len"}}
  \cup {ReadCall(op, nilItem, nilItem, u) :
          op \in {"Ascend", "Descend"}, u \in {0, 2}}
  \cup {ReadCall(op, <<k, 0>>, nilItem, u) :
          op \in {"AscendLessThan", "AscendGreaterOrEqual",
                  "DescendLessOrEqual", "DescendGreaterThan"},
          k \in KeysB, u \in {0, 2}}
  \cup {ReadCall("AscendRange", <<2, 0>>, <<MaxKeyB, 0>>, u) : u \in {0, 3}}
  \cup {ReadCall("DescendRange", <<3, 0>>, <<1, 0>>, u) : u \in {0, 2}}

\* The read methods of ImmutableBTree on the tree struct t: what the caller
\* gets, the items its iterator received for a traversal
ImmutableBTree_read(h, ts, t, r) ==
  CASE r.op = "Get" -> Get(h, ts, t, r.a)
    [] r.op = "Has" -> Has(h, ts, t, r.a)
    [] r.op = "Min" -> Min(h, ts, t)
    [] r.op = "Max" -> Max(h, ts, t)
    [] r.op = "Len" -> LenOf(ts, t)
    [] r.op = "Ascend" -> AscendUntil(h, ts, t, r.until)
    [] r.op = "Descend" -> DescendUntil(h, ts, t, r.until)
    [] r.op = "AscendRange" -> AscendRange(h, ts, t, r.a, r.b, r.until)
    [] r.op = "AscendLessThan" -> AscendLessThan(h, ts, t, r.a, r.until)
    [] r.op = "AscendGreaterOrEqual" ->
         AscendGreaterOrEqual(h, ts, t, r.a, r.until)
    [] r.op = "DescendRange" -> DescendRange(h, ts, t, r.a, r.b, r.until)
    [] r.op = "DescendLessOrEqual" ->
         DescendLessOrEqual(h, ts, t, r.a, r.until)
    [] r.op = "DescendGreaterThan" ->
         DescendGreaterThan(h, ts, t, r.a, r.until)

\* The read methods of BTreeG on the tree struct t
BTreeG_read(h, ts, t, r) ==
  CASE r.op = "Get" ->
         With(GetG([heap |-> h, trees |-> ts, pools |-> <<>>, panic |-> FALSE,
                    fuel |-> MaxDescent], t, r.a),
              LAMBDA g : [out |-> g.out, found |-> g.found])
    [] r.op = "Has" ->
         HasG([heap |-> h, trees |-> ts, pools |-> <<>>, panic |-> FALSE,
               fuel |-> MaxDescent], t, r.a)
    [] r.op = "Min" -> MinG(h, ts, t)
    [] r.op = "Max" -> MaxG(h, ts, t)
    [] r.op = "Len" -> LenG(ts, t)
    [] r.op = "Ascend" -> AscendUntilG(h, ts, t, r.until)
    [] r.op = "Descend" -> DescendUntilG(h, ts, t, r.until)
    [] r.op = "AscendRange" -> AscendRangeG(h, ts, t, r.a, r.b, r.until)
    [] r.op = "AscendLessThan" -> AscendLessThanG(h, ts, t, r.a, r.until)
    [] r.op = "AscendGreaterOrEqual" ->
         AscendGreaterOrEqualG(h, ts, t, r.a, r.until)
    [] r.op = "DescendRange" -> DescendRangeG(h, ts, t, r.a, r.b, r.until)
    [] r.op = "DescendLessOrEqual" ->
         DescendLessOrEqualG(h, ts, t, r.a, r.until)
    [] r.op = "DescendGreaterThan" ->
         DescendGreaterThanG(h, ts, t, r.a, r.until)

\* b.tree taken through writableBTree, as the write methods take it
Builder_treeWritable(x, ts) == writableBTree(x, ts)

\* b.tree as a read method of Builder uses it: the Builder is left as it is
Builder_tree(x, ts) == [x |-> x, trees |-> ts]

\* Builder.<read> through the Builder struct w.x: the world it leaves and
\* what the caller gets
Builder_read(w, r) ==
  With(Builder_tree(w.x, w.trees), LAMBDA bt :
    [w |-> [w EXCEPT !.x = bt.x, !.trees = bt.trees],
     out |-> ImmutableBTree_read(w.heap, bt.trees, bt.x.tree, r)])

\* BTree.<read> through the BTree struct w.x
BTree_read(w, r) ==
  [w |-> w, out |-> ImmutableBTree_read(w.heap, w.trees, w.x.tree, r)]

\* The state after a read call that left the world w
ReadReturns(w) ==
  /\ heap' = w.heap
  /\ trees' = w.trees
  /\ pools' = w.pools
  /\ UNCHANGED <<impl, snaps, panicked, calls, ref>>

BTree_Read(r) ==
  /\ impl = "BTree" /\ ~panicked
  /\ ReadReturns(BTree_read(World(btree), r).w)
  /\ btree' = BTree_read(World(btree), r).w.x
  /\ UNCHANGED builders

Builder_Read(b, r) ==
  /\ impl = "Builder"
  /\ b \in 1..Len(builders)
  /\ ReadReturns(Builder_read(World(builders[b]), r).w)
  /\ builders' = [builders EXCEPT ![b] = Builder_read(World(builders[b]), r).w.x]
  /\ UNCHANGED btree

\* A read method of the ImmutableBTree snapshot snaps[s]
ImmutableBTree_Read(s, r) ==
  /\ impl \in {"ImmutableBTree", "Builder"}
  /\ s \in 1..Len(snaps)
  /\ ImmutableBTree_read(heap, trees, snaps[s], r) =
       ImmutableBTree_read(heap, trees, snaps[s], r)
  /\ UNCHANGED vars

BTreeG_Read(r) ==
  /\ impl = "BTreeG" /\ ~panicked /\ Intact
  /\ BTreeG_read(heap, trees, btree.tree, r) =
       BTreeG_read(heap, trees, btree.tree, r)
  /\ UNCHANGED vars

NextReads ==
  \/ \E r \in ReadCalls : BTree_Read(r)
  \/ \E r \in ReadCalls : Builder_Read(1, r)
  \/ \E r \in ReadCalls : ImmutableBTree_Read(1, r)
  \/ \E r \in ReadCalls : BTreeG_Read(r)

\* The write methods with the items of the keys 1..MaxKeyB
NextWrites ==
  \/ \E item \in ItemsB : BTree_ReplaceOrInsert(item)
  \/ \E item \in ItemsB : BTree_Delete(item)
  \/ BTree_DeleteMin
  \/ BTree_DeleteMax
  \/ NextBuilder
  \/ \E item \in ItemsB : BTreeG_ReplaceOrInsert(item)
  \/ \E item \in ItemsB : BTreeG_Delete(item)
  \/ BTreeG_DeleteMin
  \/ BTreeG_DeleteMax

\* A BTree, a Builder with its snapshots or a BTreeG, under its write methods
\* and its read methods in any order
SpecReads == (InitBTree \/ InitBuilder \/ InitG) /\ [][NextWrites \/ NextReads]_vars

\* The worlds the read methods of the state are called through, each with
\* what a read call on it leaves and returns
Readers ==
  IF impl = "BTree" /\ ~panicked THEN {World(btree)}
  ELSE IF impl = "Builder" THEN {World(builders[b]) : b \in 1..Len(builders)}
  ELSE {}

ReadThrough(w, r) ==
  IF "copied" \in DOMAIN w.x THEN Builder_read(w, r) ELSE BTree_read(w, r)

\* The read calls that are made between the two calls of a compared pair
Between == {ReadCall("Get", <<2, 0>>, nilItem, 0),
            ReadCall("Descend", nilItem, nilItem, 2)}

AfterWrite(b, op, item) ==
  With(writableBTree(builders[b], trees), LAMBDA wb :
    mutate(BuilderContext(wb), wb.x.tree, op, item).c)

\* The nodes reachable from the root of the snapshot snaps[s]
SnapshotNodes(s) ==
  {Reach(heap, trees[snaps[s]].root)[i] :
     i \in 1..Len(Reach(heap, trees[snaps[s]].root))}

\* C23: a snapshot S can be read while a Builder derived from it is written.
\* Whatever ReplaceOrInsert, Delete, DeleteMin or DeleteMax call a Builder
\* makes next, none of the assignments of the call goes to a node reachable
\* from S or to the tree struct of S, so at every point between two node
\* writes of the call these are as they were, and a reader of S that runs in
\* between or afterwards gets the length and the items S had when it was
\* built.
C23_SnapshotReadableDuringWrites ==
  impl = "Builder" =>
    \A s \in 1..Len(snaps) : \A b \in 1..Len(builders) :
      \A op \in Mutators : \A item \in Operands(op, ItemsB) :
        With(AfterWrite(b, op, item), LAMBDA c :
          /\ c.written \cap SnapshotNodes(s) = {}
          /\ snaps[s] \notin c.assigned
          /\ \A n \in SnapshotNodes(s) : c.heap[n] = heap[n]
          /\ c.trees[snaps[s]] = trees[snaps[s]]
          /\ Ascend(c.heap, c.trees, snaps[s]) = SortedSeq(ref.snap[s])
          /\ Descend(c.heap, c.trees, snaps[s]) = Reverse(SortedSeq(ref.snap[s]))
          /\ LenOf(c.trees, snaps[s]) = Cardinality(ref.snap[s])
          /\ \A k \in KeysB :
               Get(c.heap, c.trees, snaps[s], <<k, 0>>) = RefGet(ref.snap[s], k)
          /\ Min(c.heap, c.trees, snaps[s]) = Min(heap, trees, snaps[s])
          /\ Max(c.heap, c.trees, snaps[s]) = Max(heap, trees, snaps[s]))

\* A snapshot with a root and children that shares nodes with the tree of
\* its Builder, which has changed since, and a Delete of the Builder that
\* writes nodes
C23_Witness ==
  /\ impl = "Builder"
  /\ Len(snaps) > 0
  /\ builders[1].copied
  /\ ref.cur[1] # ref.snap[1]
  /\ height(heap, trees[snaps[1]].root) = 2
  /\ SnapshotNodes(1) \cap {Reach(heap, trees[builders[1].tree].root)[i] :
                      i \in 1..Len(Reach(heap, trees[builders[1].tree].root))} # {}
  /\ Cardinality(AfterWrite(1, "Delete", <<1, 0>>).written) > 1




\* --------------------------------------- a BTree and a Builder side by side
\* t := New(degree) and b := NewBuilder(NewImmutable(degree)) receive the same
\* calls, and b.Build() is called in between at any point; the program keeps
\* the last snapshot Build returned.  calls holds what the last write call
\* returned on t and on b, ref.cur[1] the reference map of both.

InitBoth ==
  /\ impl = "Both"
  /\ heap = <<>>
  /\ \E d \in Degrees :
       trees = <<[degree |-> d, length |-> 0, root |-> 0],
                 [degree |-> d, length |-> 0, root |-> 0]>>
  /\ pools = <<NewFreeList(DefaultFreeListSize), NewFreeList(DefaultFreeListSize)>>
  /\ btree = [tree |-> 1, writables |-> {}, tracking |-> FALSE, freelist |-> 1]
  /\ builders = <<NewBuilder(trees, 2, 2)>>
  /\ snaps = <<>>
  /\ panicked = FALSE
  /\ calls = <<>>
  /\ ref = [cur |-> <<{}>>, snap |-> <<>>]

\* t.op(item), then b.op(item)
Both_Write(op, item) ==
  /\ impl = "Both"
  /\ With(Do(World(btree), op, item), LAMBDA d1 :
     With(Do([d1.w EXCEPT !.x = builders[1]], op, item), LAMBDA d2 :
       /\ Returns([heap |-> d2.w.heap, trees |-> d2.w.trees, pools |-> d2.w.pools],
                  d1.w.x, <<d2.w.x>>, snaps)
       /\ calls' = <<d1.out, d2.out>>))
  /\ ref' = [ref EXCEPT !.cur[1] = RefMutate(@, op, item)]
  /\ UNCHANGED panicked

\* b.Build()
Both_Build ==
  /\ impl = "Both"
  /\ Returns([heap |-> heap, trees |-> trees, pools |-> pools], btree,
             <<Set(builders[1], trees, builders[1].tree)>>,
             Keep(snaps, builders[1].tree))
  /\ ref' = [ref EXCEPT !.snap = Keep(@, ref.cur[1])]
  /\ UNCHANGED <<panicked, calls>>

\* t.<read> and b.<read>
Both_Read(r) ==
  /\ impl = "Both"
  /\ ReadReturns(Builder_read(World(builders[1]), r).w)
  /\ btree' = BTree_read(World(btree), r).w.x
  /\ builders' = <<Builder_read(World(builders[1]), r).w.x>>

NextBoth ==
  \/ \E op \in Mutators : \E item \in Operands(op, ItemsB) : Both_Write(op, item)
  \/ Both_Build
  \/ \E r \in Between : Both_Read(r)

SpecBoth == InitBoth /\ [][NextBoth]_vars

\* C24: a Builder behaves like a BTree of the same degree.  After the same
\* sequence of ReplaceOrInsert, Delete, DeleteMin and DeleteMax calls on
\* both, with Build calls of the Builder at any points, the last write call
\* returned the same on both, every read call (Get, Has, Min, Max, Len,
\* Ascend*, Descend*) returns the same on both, both hold the items of the
\* reference map, and every write call that can follow returns the same on
\* both.
C24_BuilderIsBTree ==
  impl = "Both" =>
    /\ Len(calls) = 2 => calls[1] = calls[2]
    /\ \A r \in ReadCalls :
         BTree_read(World(btree), r).out = Builder_read(World(builders[1]), r).out
    /\ Holds(btree.tree, ref.cur[1])
    /\ Holds(builders[1].tree, ref.cur[1])
    /\ \A op \in Mutators : \A item \in Operands(op, ItemsB) :
         Do(World(btree), op, item).out = Do(World(builders[1]), op, item).out

\* Both trees have a root with children, Build has returned a snapshot, the
\* Builder has written since and the last write call returned an item
C24_Witness ==
  /\ impl = "Both"
  /\ Len(snaps) > 0
  /\ builders[1].copied
  /\ ref.cur[1] # ref.snap[1]
  /\ height(heap, trees[btree.tree].root) = 2
  /\ Len(calls) = 2 /\ calls[1] # nilItem

\* ------------------------------------------ the steps inside a write call
\* A write call made on the current state is followed through the log of
\* its context: `pre` is the context it starts in, t the tree struct it
\* writes, item its argument, c the context it leaves (c.log holds its
\* steps) and out the item it returns.

\* BTreeG.ReplaceOrInsert or BTreeG.deleteItem, as the method `op` calls it
mutateG(c, t, op, item) ==
  IF op = "ReplaceOrInsert" THEN ReplaceOrInsertG(c, t, item)
  ELSE IF op = "Delete" THEN deleteItemG(c, t, item, removeItem)
  ELSE IF op = "DeleteMin" THEN deleteItemG(c, t, nilItem, removeMin)
  ELSE deleteItemG(c, t, nilItem, removeMax)

\* The call op(item) through the BTree or Builder x
CowRun(x, op, item) ==
  With(IF "copied" \in DOMAIN x THEN writableBTree(x, trees)
       ELSE Builder_tree(x, trees), LAMBDA wb :
  With(mutate(BuilderContext(wb), wb.x.tree, op, item), LAMBDA r :
    [impl |-> "cow", pre |-> BuilderContext(wb), t |-> wb.x.tree,
     item |-> item, c |-> r.c, out |-> r.out]))

\* The call op(item) on the BTreeG
GRun(op, item) ==
  With(mutateG(ContextG, btree.tree, op, item), LAMBDA r :
    [impl |-> "g", pre |-> ContextG, t |-> btree.tree, item |-> item,
     c |-> r.c, out |-> r.out])

\* The calls op(item) the program can make in the current state, with the
\* items of I
RunsOf(op, I) ==
  {CowRun(x, op, item) : x \in Handles, item \in Operands(op, I)}
    \cup IF impl = "BTreeG" /\ ~panicked /\ Intact
           THEN {GRun(op, item) : item \in Operands(op, I)}
           ELSE {}

Runs(op) == RunsOf(op, Inputs)

\* The objects at each step of a run: at every logged step, and at the end
Moments(r) ==
  [k \in 1..Len(r.c.log) + 1 |->
     IF k <= Len(r.c.log) THEN r.c.log[k].at ELSE r.c]

\* The steps of the run that are the event e
Events(r, e) == {k \in 1..Len(r.c.log) : r.c.log[k].e = e}

\* node.split as the run made it at step k: the step's objects are those
\* split was entered with
SplitAt(r, k) ==
  IF r.impl = "cow" THEN split(r.c.log[k].at, r.c.log[k].n, r.c.log[k].i)
  ELSE With(splitG(r.c.log[k].at, r.c.log[k].n, r.c.log[k].i), LAMBDA sp :
         [c |-> sp.c, item |-> sp.item, next |-> sp.next])

\* C25: whenever node.insert is entered during ReplaceOrInsert the node
\* holds fewer than 2*degree-1 items, at every step of the call no node
\* holds more than 2*degree-1 items, and every split is of a full node and
\* leaves degree-1 items in each half, the median item promoted between them.
C25_InsertSplitsTopDown ==
  \A r \in Runs("ReplaceOrInsert") :
    LET degree == r.pre.trees[r.t].degree
        log == r.c.log
        at == Moments(r) IN
    /\ \A k \in Events(r, "insert") :
         Len(log[k].at.heap[log[k].n].items) < 2 * degree - 1
    /\ \A k \in DOMAIN at : \A n \in DOMAIN at[k].heap :
         Len(at[k].heap[n].items) <= 2 * degree - 1
    /\ \A k \in Events(r, "split") :
         LET n == log[k].n
             before == log[k].at.heap[n].items
             sp == SplitAt(r, k) IN
         /\ Len(before) = 2 * degree - 1
         /\ Len(sp.c.heap[n].items) = degree - 1
         /\ Len(sp.c.heap[sp.next].items) = degree - 1
         /\ sp.item = before[degree]
         /\ before = sp.c.heap[n].items \o <<sp.item>> \o sp.c.heap[sp.next].items

\* An insert that splits a full child on its way down and then enters the
\* root and one of the halves can be made.
C25_Witness ==
  \E r \in Runs("ReplaceOrInsert") :
    /\ Events(r, "maybeSplitChild") # {}
    /\ Cardinality(Events(r, "insert")) >= 2

\* The first step after step k of the run that is the event e, 0 if none
NextEvent(r, k, e) ==
  IF \E j \in Events(r, e) : j > k
    THEN CHOOSE j \in Events(r, e) :
           j > k /\ \A m \in Events(r, e) : m > k => j <= m
    ELSE 0

\* The root of the tree the run writes, at its end
RootAfter(r) == r.c.trees[r.t].root

\* Where the item of an insert goes after maybeSplitChild split child i of
\* node n at step k of the run: the node.insert call that follows (step x)
\* with the parent as that call finds it, or the parent at the end of the run
RouteAfterSplit(r, k) ==
  With(NextEvent(r, k, "split"), LAMBDA s :
  With(NextEvent(r, k, "insert"), LAMBDA x :
    [sp |-> SplitAt(r, s),
     first |-> r.c.log[s].n,
     x |-> x,
     into |-> IF x = 0 THEN 0 ELSE r.c.log[x].n,
     parent |-> IF x = 0 THEN r.c.heap[r.c.log[k].n]
                ELSE r.c.log[x].at.heap[r.c.log[k].n]]))

\* C26: after maybeSplitChild split child i, the promoted separator is at
\* index i of the parent and the item goes into the left half when smaller,
\* into the right half (child i+1) when larger; when it equals the separator
\* it takes the separator's place in the parent, the separator is returned,
\* there is no further descent and the tree holds as many items as before.
C26_RoutedBySeparator ==
  \A r \in Runs("ReplaceOrInsert") : \A k \in Events(r, "maybeSplitChild") :
    LET i == r.c.log[k].i
        g == RouteAfterSplit(r, k) IN
    IF Less(r.item, g.sp.item)
      THEN /\ g.x # 0
           /\ g.parent.items[i + 1] = g.sp.item
           /\ g.into = g.parent.children[i + 1]
           /\ g.into = g.first
    ELSE IF Less(g.sp.item, r.item)
      THEN /\ g.x # 0
           /\ g.parent.items[i + 1] = g.sp.item
           /\ g.into = g.parent.children[i + 2]
           /\ g.into = g.sp.next
    ELSE /\ g.x = 0
         /\ r.out = g.sp.item
         /\ g.parent.items[i + 1] = r.item
         /\ r.c.trees[r.t].length = r.pre.trees[r.t].length
         /\ keysUnder(r.c.heap, RootAfter(r))
              = keysUnder(r.pre.heap, r.pre.trees[r.t].root)

\* The three routes after a split
RoutesAfterSplit(r) ==
  {IF Less(r.item, RouteAfterSplit(r, k).sp.item) THEN "left"
   ELSE IF Less(RouteAfterSplit(r, k).sp.item, r.item) THEN "right"
   ELSE "separator" : k \in Events(r, "maybeSplitChild")}

\* The program can make an insert of each route, and one whose item differs
\* from the separator it replaces.
C26_Witness ==
  /\ \A way \in {"left", "right", "separator"} :
       \E r \in Runs("ReplaceOrInsert") : way \in RoutesAfterSplit(r)
  /\ \E r \in Runs("ReplaceOrInsert") :
       "separator" \in RoutesAfterSplit(r) /\ r.out # r.item

\* The nodes below the root of the tree the run writes, as they are in the
\* objects m of one of its moments
BelowRoot(r, m) ==
  {Reach(m.heap, m.trees[r.t].root)[j] :
     j \in 1..Len(Reach(m.heap, m.trees[r.t].root))} \ {m.trees[r.t].root}

\* The child that the step k of the run (a recursive call of node.remove
\* from the node n of the step, at its index i) goes into
ChildEntered(r, k) ==
  r.c.log[k].at.heap[r.c.log[k].n].children[r.c.log[k].i + 1]

\* C27: in a Delete, DeleteMin or DeleteMax on a structurally valid tree,
\* every child that node.remove recurses into holds more than degree-1
\* items when it is entered, and every node below the root holds at least
\* degree-1 items at every step of the call and after it.
C27_RemoveEntersGrownChild ==
  \A op \in Deleters : \A r \in Runs(op) :
    LET mn == minItems(r.pre.trees[r.t])
        at == Moments(r) IN
    /\ \A k \in Events(r, "descend") \cup Events(r, "predecessor") :
         Len(r.c.log[k].at.heap[ChildEntered(r, k)].items) > mn
    /\ \A k \in DOMAIN at : \A n \in BelowRoot(r, at[k]) :
         Len(at[k].heap[n].items) >= mn

\* A delete that has to grow a child before it can go into it, and one that
\* goes down for the predecessor of the item it found, can be made.
C27_Witness ==
  /\ \E op \in Deleters : \E r \in Runs(op) :
       \E k \in Events(r, "growChildAndRemove") :
         NextEvent(r, k, "descend") # 0
  /\ \E r \in Runs("Delete") : Events(r, "predecessor") # {}

\* ------------------------------------------------------ trees of height 3
\* The program fills a BTree, a Builder or a BTreeG with the keys 1..MaxKeyD
\* in ascending or in descending order and then deletes up to MaxDeletes of
\* them; a key that is next in the order is inserted again after it was
\* deleted.  The Builder also builds snapshots of the tree with all the keys,
\* so that its deletes work on shared nodes.
MaxKeyD == 10
MaxDeletes == 3
KeysD == 1..MaxKeyD
ItemsD == {<<k, 0>> : k \in KeysD}

\* The keys stored are 1..k-1 or k+1..MaxKeyD, for the key k of the item
NextInOrder(item) ==
  \/ RefKeys(ref.cur[1]) = 1..(item[1] - 1)
  \/ RefKeys(ref.cur[1]) = (item[1] + 1)..MaxKeyD

\* The tree is filled and fewer than MaxDeletes keys are missing
Filled == Cardinality(ref.cur[1]) > MaxKeyD - MaxDeletes

NextDeep ==
  \/ \E item \in ItemsD : NextInOrder(item) /\ BTree_ReplaceOrInsert(item)
  \/ \E item \in ItemsD : Filled /\ BTree_Delete(item)
  \/ Filled /\ BTree_DeleteMin
  \/ Filled /\ BTree_DeleteMax
  \/ \E item \in ItemsD : NextInOrder(item) /\ Builder_ReplaceOrInsert(1, item)
  \/ \E item \in ItemsD : Filled /\ Builder_Delete(1, item)
  \/ Filled /\ Builder_DeleteMin(1)
  \/ Filled /\ Builder_DeleteMax(1)
  \/ Cardinality(ref.cur[1]) = MaxKeyD /\ Builder_Build(1)
  \/ \E item \in ItemsD : NextInOrder(item) /\ BTreeG_ReplaceOrInsert(item)
  \/ \E item \in ItemsD : Filled /\ BTreeG_Delete(item)
  \/ Filled /\ BTreeG_DeleteMin
  \/ Filled /\ BTreeG_DeleteMax

SpecDeep == (InitBTree \/ InitBuilder \/ InitG) /\ [][NextDeep]_vars

\* The items under node n in order: child, item, child, ...
RECURSIVE inOrder(_, _)
inOrder(h, n) ==
  IF Len(h[n].children) = 0 THEN h[n].items
  ELSE Flatten([j \in 1..Len(h[n].children) |->
         inOrder(h, h[n].children[j])
           \o (IF j <= Len(h[n].items) THEN <<h[n].items[j]>> ELSE <<>>)])

\* The step growChildAndRemove is to take on child i of a node with the items
\* `items` whose children hold `sizes` items, by the order of preference
StepPreferred(items, sizes, i, mn) ==
  IF i > 0 /\ sizes[i] > mn THEN [e |-> "stealLeft", i |-> i]
  ELSE IF i < Len(items) /\ sizes[i + 2] > mn THEN [e |-> "stealRight", i |-> i]
  ELSE [e |-> "merge", i |-> IF i >= Len(items) THEN i - 1 ELSE i]

GrowSteps == {"stealLeft", "stealRight", "merge"}

\* One growChildAndRemove of a run, entered at step k: the node n and child
\* index i, the node as it was entered (`was`, in the heap `h0`), the one step
\* taken (`step`), and the node at the retry of remove (`now`, in `h1`);
\* `first` and `last` are the objects at the entry and at the retry
Grown(r, k) ==
  With(NextEvent(r, k, "retry"), LAMBDA q :
    [n |-> r.c.log[k].n, i |-> r.c.log[k].i, q |-> q,
     first |-> r.c.log[k].at,
     h0 |-> r.c.log[k].at.heap,
     was |-> r.c.log[k].at.heap[r.c.log[k].n],
     step |-> [e |-> r.c.log[k + 1].e, i |-> r.c.log[k + 1].i],
     steps |-> {j \in k + 1..q : r.c.log[j].e \in GrowSteps},
     last |-> r.c.log[q].at,
     h1 |-> r.c.log[q].at.heap,
     now |-> r.c.log[q].at.heap[r.c.log[k].n]])

\* stealLeft through separator i-1: the last item of the left sibling is the
\* separator, the old separator the first item of the child; the last child
\* of the left sibling, if any, is the first child of the child
StoleLeft(g) ==
  LET i == g.i
      left == g.h0[g.was.children[i]]
      child == g.h0[g.was.children[i + 1]]
      left1 == g.h1[g.now.children[i]]
      child1 == g.h1[g.now.children[i + 1]] IN
  /\ g.now.items = [g.was.items EXCEPT ![i] = left.items[Len(left.items)]]
  /\ Len(g.now.children) = Len(g.was.children)
  /\ left1.items = pop(left.items)
  /\ child1.items = <<g.was.items[i]>> \o child.items
  /\ IF Len(left.children) > 0
       THEN /\ Len(left1.children) = Len(left.children) - 1
            /\ Len(child1.children) = Len(child.children) + 1
            /\ inOrder(g.h1, child1.children[1])
                 = inOrder(g.h0, left.children[Len(left.children)])
       ELSE left1.children = <<>> /\ child1.children = <<>>

\* stealRight through separator i, likewise with the first item and child
StoleRight(g) ==
  LET i == g.i
      right == g.h0[g.was.children[i + 2]]
      child == g.h0[g.was.children[i + 1]]
      right1 == g.h1[g.now.children[i + 2]]
      child1 == g.h1[g.now.children[i + 1]] IN
  /\ g.now.items = [g.was.items EXCEPT ![i + 1] = right.items[1]]
  /\ Len(g.now.children) = Len(g.was.children)
  /\ right1.items = popFront(right.items)
  /\ child1.items = child.items \o <<g.was.items[i + 1]>>
  /\ IF Len(right.children) > 0
       THEN /\ Len(right1.children) = Len(right.children) - 1
            /\ Len(child1.children) = Len(child.children) + 1
            /\ inOrder(g.h1, child1.children[Len(child1.children)])
                 = inOrder(g.h0, right.children[1])
       ELSE right1.children = <<>> /\ child1.children = <<>>

\* merge around separator j: the separator leaves the parent, the child j
\* holds its items, the separator and the items of child j+1, and child j+1
\* is no child of the parent any more and went through freeNode: emptied,
\* and in the free list if that had room (a node of the copy-on-write
\* implementation that the context does not own is left as it is)
Merged(r, g) ==
  LET j == g.step.i
      child == g.h0[g.was.children[j + 1]]
      mergeChild == g.was.children[j + 2]
      child1 == g.h1[g.now.children[j + 1]]
      owned == IF r.impl = "g" THEN TRUE
               ELSE ~r.pre.tracking \/ mergeChild \in g.first.writables
      fl == IF r.impl = "g" THEN r.pre.trees[r.t].freelist ELSE r.pre.freelist IN
  /\ j = IF g.i >= Len(g.was.items) THEN g.i - 1 ELSE g.i
  /\ g.now.items = removeAt(g.was.items, j)
  /\ Len(g.now.children) = Len(g.was.children) - 1
  /\ \A x \in 1..Len(g.now.children) : g.now.children[x] # mergeChild
  /\ child1.items = child.items \o <<g.was.items[j + 1]>> \o g.h0[mergeChild].items
  /\ Len(child1.children) = Len(child.children) + Len(g.h0[mergeChild].children)
  /\ IF owned
       THEN /\ g.h1[mergeChild].items = <<>>
            /\ g.h1[mergeChild].children = <<>>
            /\ \/ \E x \in 1..Len(g.last.pools[fl].freelist) :
                    g.last.pools[fl].freelist[x] = mergeChild
               \/ Len(g.last.pools[fl].freelist) = g.last.pools[fl].cap
       ELSE /\ g.h1[mergeChild] = g.h0[mergeChild]
            /\ \A x \in 1..Len(g.last.pools[fl].freelist) :
                 g.last.pools[fl].freelist[x] # mergeChild

\* C28: growChildAndRemove on child i takes exactly one step, the first that
\* applies of: steal from the left sibling (it exists and holds more than
\* degree-1 items), steal from the right sibling (likewise), merge with the
\* right sibling, or with the left one when child i is the last; the step
\* moves the items and children as described, leaves the items under the
\* parent in the same order, the target child with more than degree-1 items
\* and no node with more than 2*degree-1 items.
C28_GrowChildOneStep ==
  \A op \in Deleters : \A r \in RunsOf(op, ItemsD) :
    \A k \in Events(r, "growChildAndRemove") :
      LET g == Grown(r, k)
          degree == r.pre.trees[r.t].degree
          target == IF g.step.e = "merge" THEN g.step.i ELSE g.i IN
      /\ g.q # 0
      /\ g.steps = {k + 1}
      /\ g.step = StepPreferred(g.was.items,
                                [x \in 1..Len(g.was.children) |->
                                   Len(g.h0[g.was.children[x]].items)],
                                g.i, degree - 1)
      /\ g.step.e = "stealLeft" => StoleLeft(g)
      /\ g.step.e = "stealRight" => StoleRight(g)
      /\ g.step.e = "merge" => Merged(r, g)
      /\ inOrder(g.h1, g.n) = inOrder(g.h0, g.n)
      /\ Len(g.h1[g.now.children[target + 1]].items) > degree - 1
      /\ \A m \in k..g.q : \A x \in DOMAIN r.c.log[m].at.heap :
           Len(r.c.log[m].at.heap[x].items) <= 2 * degree - 1

\* The steps that the growChildAndRemove calls of a run take, each with
\* whether the child grown has children
StepsTaken(r) ==
  {<<Grown(r, k).step.e,
     Len(Grown(r, k).h0[Grown(r, k).was.children[Grown(r, k).i + 1]].children) > 0>> :
     k \in Events(r, "growChildAndRemove")}

\* The program can make a delete that steals for a child that has children
\* and a delete that merges a child that has children with its sibling.
C28_Witness ==
  /\ \E op \in Deleters : \E r \in RunsOf(op, ItemsD) :
       StepsTaken(r) \cap {<<"stealLeft", TRUE>>, <<"stealRight", TRUE>>} # {}
  /\ \E op \in Deleters : \E r \in RunsOf(op, ItemsD) :
       \E internal \in BOOLEAN : <<"merge", internal>> \in StepsTaken(r)

\* The index of item x in the sequence s of distinct items, 0 if absent
IndexOf(s, x) ==
  IF \E j \in 1..Len(s) : s[j] = x THEN CHOOSE j \in 1..Len(s) : s[j] = x ELSE 0

\* One descent for the predecessor, at step k of a Delete run: node.remove
\* found the item at index i of node n (`was`, in the heap h0) and calls
\* remove(removeMax) on child i; `now` is the node at the end of the run
Promoted(r, k) ==
  [n |-> r.c.log[k].n, i |-> r.c.log[k].i,
   h0 |-> r.c.log[k].at.heap,
   was |-> r.c.log[k].at.heap[r.c.log[k].n],
   now |-> r.c.heap[r.c.log[k].n],
   before |-> inOrder(r.pre.heap, r.pre.trees[r.t].root),
   after |-> inOrder(r.c.heap, RootAfter(r))]

\* C29: when Delete finds the item at index i of a node with children, and
\* child i holds more than degree-1 items, the call returns that item, child
\* i loses its maximum and slot i holds that maximum, which is the item just
\* before the removed one in the order of the tree; the items under child i
\* are smaller than slot i and those under child i+1 greater.
C29_PredecessorPromoted ==
  \A r \in RunsOf("Delete", ItemsD) : \A k \in Events(r, "predecessor") :
    LET p == Promoted(r, k)
        i == p.i
        child == p.was.children[i + 1]
        under == inOrder(p.h0, child)
        at == IndexOf(p.before, r.out) IN
    /\ Len(p.h0[child].items) > minItems(r.pre.trees[r.t])
    /\ r.out = p.was.items[i + 1]
    /\ ~Less(r.out, r.item) /\ ~Less(r.item, r.out)
    /\ p.now.items = [p.was.items EXCEPT ![i + 1] = max(p.h0, child)]
    /\ p.now.items[i + 1] = under[Len(under)]
    /\ inOrder(r.c.heap, p.now.children[i + 1]) = SubSeq(under, 1, Len(under) - 1)
    /\ at > 1 /\ p.now.items[i + 1] = p.before[at - 1]
    /\ p.after = SubSeq(p.before, 1, at - 1) \o SubSeq(p.before, at + 1, Len(p.before))
    /\ \A x \in keysUnder(r.c.heap, p.now.children[i + 1]) : x < p.now.items[i + 1][1]
    /\ \A x \in keysUnder(r.c.heap, p.now.children[i + 2]) : p.now.items[i + 1][1] < x

\* A Delete that finds its item in a node two levels above the leaves and
\* goes down two levels for the predecessor can be made.
C29_Witness ==
  \E r \in RunsOf("Delete", ItemsD) : \E k \in Events(r, "predecessor") :
    NextEvent(r, k, "descend") # 0

\* ------------------------------------------------- a delete, call by call
\* The program fills a BTree or a BTreeG with FillAtLeast..MaxKeyD keys in
\* ascending or descending order and then makes one delete, which is
\* followed through the calls of node.remove it makes, one call a step.
\* (The values of the statements of a step are bound by \E x \in {v}.)
\* calls = <<>> while the program fills and <<[n |-> 0]>> after the delete;
\* during the delete calls = <<fr>>, the record of the node.remove call that
\* is to run: its receiver n and its arguments item and typ; slot and out,
\* the slot <<node, index>> an outer call waits to fill with what this call
\* returns and the item that outer call is to return (slot = <<>> when no
\* call waits); and, about the delete so far, grown: the nodes
\* growChildAndRemove was called on, again: it was called twice on one of
\* them, retry: this call is the one growChildAndRemove ends with, moved:
\* the item was found in the node before the step of growChildAndRemove and
\* is not after it, shifted: the step was a merge with the left sibling,
\* depth: the number of calls on a child so far, height: the height of the
\* tree when the delete began.
FillAtLeast == 9

InCall == calls # <<>> /\ calls[1].n # 0

\* i and found, as node.remove sets them before it looks at the children
Selected(nd, item, typ) ==
  IF typ = removeItem THEN find(nd.items, item)
  ELSE [index |-> IF typ = removeMax THEN Len(nd.items) ELSE 0,
        found |-> FALSE]

\* The child i of the node of the call that is to run
ChildSelected ==
  heap[calls[1].n].children[
    Selected(heap[calls[1].n], calls[1].item, calls[1].typ).index + 1]

\* The state after a step that left the objects as in c and the calls as cs;
\* the nodes keep their numbers
Proceeds(c, cs) ==
  /\ heap' = c.heap
  /\ trees' = c.trees
  /\ pools' = c.pools
  /\ btree' = IF impl = "BTreeG" THEN btree
              ELSE [btree EXCEPT !.writables = c.writables]
  /\ calls' = cs
  /\ UNCHANGED <<impl, builders, snaps>>

\* The state after the delete returned `out` or panicked, with the objects
\* as in c
DeleteReturns(c, out) ==
  /\ Proceeds(c, <<[n |-> 0]>>)
  /\ panicked' = (impl = "BTreeG" /\ c.panic)
  /\ ref' = [ref EXCEPT !.cur[1] = RefDelete(@, out[1])]

\* deleteItem up to the call of t.root.remove
deleteItem_call(op, item) ==
  /\ impl \in {"BTree", "BTreeG"} /\ calls = <<>> /\ ~panicked
  /\ Cardinality(ref.cur[1]) >= FillAtLeast
  /\ impl = "BTreeG" => Intact
  /\ trees[btree.tree].root # 0
  /\ Len(heap[trees[btree.tree].root].items) > 0
  /\ \E w \in {IF impl = "BTreeG"
                 THEN [c |-> ContextG, n |-> trees[btree.tree].root]
                 ELSE writableNode(Context(btree), trees[btree.tree].root)} :
       Proceeds([w.c EXCEPT !.trees[btree.tree].root = w.n],
                <<[n |-> w.n, item |-> item,
                   typ |-> IF op = "Delete" THEN removeItem
                           ELSE IF op = "DeleteMin" THEN removeMin
                           ELSE removeMax,
                   slot |-> <<>>, out |-> nilItem,
                   grown |-> {}, again |-> FALSE, retry |-> FALSE,
                   moved |-> FALSE, shifted |-> FALSE, depth |-> 0,
                   height |-> height(heap, trees[btree.tree].root)]>>)
  /\ UNCHANGED <<panicked, ref>>

\* node.remove on a node with children whose child i holds minItems items or
\* fewer: growChildAndRemove up to its call of n.remove
remove_grow ==
  /\ InCall /\ Len(heap[calls[1].n].children) > 0
  /\ Len(heap[ChildSelected].items) <= minItems(trees[btree.tree])
  /\ \E fr \in {calls[1]} :
     \E f \in {Selected(heap[fr.n], fr.item, fr.typ)} :
     \E c \in {IF impl = "BTreeG"
                 THEN growChildG(ContextG, fr.n, f.index,
                                 minItems(trees[btree.tree]))
                 ELSE growChild(Context(btree), fr.n, f.index,
                                minItems(trees[btree.tree]))} :
       IF impl = "BTreeG" /\ c.panic
         THEN DeleteReturns(c, nilItem)
         ELSE /\ Proceeds(c,
                   <<[fr EXCEPT
                        !.grown = @ \cup {fr.n},
                        !.again = @ \/ fr.n \in fr.grown,
                        !.retry = TRUE,
                        !.moved =
                           f.found
                             /\ ~Selected(c.heap[fr.n], fr.item, fr.typ).found,
                        !.shifted =
                           Len(c.heap[fr.n].items) < Len(heap[fr.n].items)
                             /\ f.index >= Len(heap[fr.n].items)]>>)
              /\ UNCHANGED <<panicked, ref>>

\* node.remove on a node with children whose child i holds more than
\* minItems items: up to its call of child.remove
remove_descend ==
  /\ InCall /\ Len(heap[calls[1].n].children) > 0
  /\ Len(heap[ChildSelected].items) > minItems(trees[btree.tree])
  /\ \E fr \in {calls[1]} :
     \E f \in {Selected(heap[fr.n], fr.item, fr.typ)} :
     \E w \in {IF impl = "BTreeG" THEN [c |-> ContextG, n |-> ChildSelected]
               ELSE writableNode(Context(btree), ChildSelected)} :
       Proceeds([w.c EXCEPT !.heap[fr.n].children[f.index + 1] = w.n],
                IF f.found
                  THEN <<[fr EXCEPT !.n = w.n, !.item = nilItem,
                                    !.typ = removeMax,
                                    !.slot = <<fr.n, f.index>>,
                                    !.out = heap[fr.n].items[f.index + 1],
                                    !.retry = FALSE, !.depth = @ + 1]>>
                  ELSE <<[fr EXCEPT !.n = w.n, !.retry = FALSE,
                                    !.depth = @ + 1]>>)
  /\ UNCHANGED <<panicked, ref>>

\* The rest of deleteItem after t.root.remove returned `out` and left the
\* objects as in c
deleteItem_return(c, t, out) ==
  \E oldroot \in {c.trees[t].root} :
  \E c2 \in {IF Len(c.heap[oldroot].items) = 0
                /\ Len(c.heap[oldroot].children) > 0
               THEN IF impl = "BTreeG"
                      THEN FreeListG_freeNode(
                             [c EXCEPT !.trees[t].root =
                                          c.heap[oldroot].children[1]],
                             c.trees[t].freelist, oldroot)
                      ELSE freeNode(
                             [c EXCEPT !.trees[t].root =
                                          c.heap[oldroot].children[1]],
                             oldroot)
               ELSE c} :
    DeleteReturns(IF out # nilItem
                    THEN [c2 EXCEPT !.trees[t].length = @ - 1] ELSE c2,
                  out)

\* node.remove on a node without children, the return through the calls
\* that wait (one of them may fill its slot), and the rest of deleteItem
remove_leaf ==
  /\ InCall /\ Len(heap[calls[1].n].children) = 0
  /\ \E fr \in {calls[1]} :
     \E r \in {IF impl = "BTreeG"
                 THEN removeG(ContextG, fr.n, fr.item,
                              minItems(trees[btree.tree]), fr.typ)
                 ELSE remove(Context(btree), fr.n, fr.item,
                             minItems(trees[btree.tree]), fr.typ)} :
       IF impl = "BTreeG" /\ r.c.panic
         THEN DeleteReturns(r.c, nilItem)
       ELSE IF fr.slot = <<>>
         THEN deleteItem_return(r.c, btree.tree, r.out)
       ELSE \E c1 \in {[r.c EXCEPT
                          !.heap[fr.slot[1]].items[fr.slot[2] + 1] = r.out]} :
              deleteItem_return(c1, btree.tree, fr.out)

RemoveStep == remove_grow \/ remove_descend \/ remove_leaf

NextSteps ==
  \/ \E item \in ItemsD :
       calls = <<>> /\ NextInOrder(item) /\ BTree_ReplaceOrInsert(item)
  \/ \E item \in ItemsD :
       calls = <<>> /\ NextInOrder(item) /\ BTreeG_ReplaceOrInsert(item)
  \/ \E op \in Deleters : \E item \in Operands(op, ItemsD) :
       deleteItem_call(op, item)
  \/ remove_grow
  \/ remove_descend
  \/ remove_leaf

\* A call of node.remove that is to run does run: the program is sequential
\* and nothing else is scheduled while a delete is in progress.
SpecSteps ==
  (InitBTree \/ InitG) /\ [][NextSteps]_vars /\ WF_vars(RemoveStep)

\* What holds of every call of a delete
RemoveBounded ==
  InCall =>
    /\ ~calls[1].again
    /\ calls[1].depth <= calls[1].height - 1
    /\ calls[1].retry =>
         /\ Len(heap[calls[1].n].children) > 0
         /\ Len(heap[ChildSelected].items) > minItems(trees[btree.tree])

\* C30: every Delete, DeleteMin and DeleteMax on a structurally valid tree
\* returns; the call of remove that growChildAndRemove ends with selects a
\* child with more than degree-1 items, growChildAndRemove is called at most
\* once on a node, and there are at most height-1 calls on a child.
C30_DeleteTerminates == [](RemoveBounded) /\ (InCall ~> ~InCall)

\* A delete is at the call of remove that growChildAndRemove ends with, one
\* level or more below the root, and the step moved the item out of the node.
C30_Witness ==
  InCall /\ calls[1].retry /\ calls[1].moved /\ calls[1].depth >= 1

\* ---------------------------------------------------------------- balance
\* The depths of the leaves under node n, which is at depth d
RECURSIVE leafDepths(_, _, _)
leafDepths(h, n, d) ==
  IF Len(h[n].children) = 0 THEN {d}
  ELSE UNION {leafDepths(h, h[n].children[i], d + 1) :
                i \in 1..Len(h[n].children)}

\* The depths of the leaves of tree struct t of the objects c; a tree
\* without a root has no leaf
LeavesAt(c, t) ==
  IF c.trees[t].root = 0 THEN {} ELSE leafDepths(c.heap, c.trees[t].root, 0)

\* The height of the tree: the depth of its deepest leaf, 0 for a tree that
\* is a single leaf and for a tree without a root
HeightOf(c, t) ==
  IF LeavesAt(c, t) = {} THEN 0
  ELSE CHOOSE d \in LeavesAt(c, t) : \A e \in LeavesAt(c, t) : e <= d

\* The calls op(item) the program can make through a BTree or a Builder
CowRuns(op) == {r \in Runs(op) : r.impl = "cow"}

\* The steps of run r at which the root of its tree has no item and has
\* children
RootEmptied(r) ==
  {k \in 1..Len(r.c.log) :
     LET at == r.c.log[k].at IN
     /\ at.trees[r.t].root # 0
     /\ Len(at.heap[at.trees[r.t].root].items) = 0
     /\ Len(at.heap[at.trees[r.t].root].children) > 0}

\* Run r of a delete replaced the emptied root by its single child and
\* released it through freeNode: the old root is no node of the tree, is
\* empty, is not in the writable set and is in the pool unless that is full.
RootCollapsed(r) ==
  \E k \in RootEmptied(r) :
    LET at == r.c.log[k].at
        oldroot == at.trees[r.t].root
        free == r.c.pools[r.c.freelist] IN
    /\ at.heap[oldroot].children = <<r.c.trees[r.t].root>>
    /\ \A j \in 1..Len(Reach(r.c.heap, r.c.trees[r.t].root)) :
         Reach(r.c.heap, r.c.trees[r.t].root)[j] # oldroot
    /\ r.c.heap[oldroot] = emptyNode
    /\ oldroot \notin r.c.writables
    /\ \/ \E j \in 1..Len(free.freelist) : free.freelist[j] = oldroot
       \/ /\ Len(free.freelist) = free.cap
          /\ r.pre.pools[r.pre.freelist] = free

\* C31: in the copy-on-write implementation, after every ReplaceOrInsert,
\* Delete, DeleteMin and DeleteMax all leaves are at the same depth; the
\* height grows only in a ReplaceOrInsert that found the root full and split
\* it, and then by 1; it shrinks only in a delete that collapsed the root,
\* and then by 1; and after a delete a root without items has no children,
\* the root a merge emptied having been replaced by its single child and
\* released through freeNode.
C31_Balanced ==
  \A op \in Mutators : \A r \in CowRuns(op) :
    LET before == HeightOf(r.pre, r.t)
        after == HeightOf(r.c, r.t)
        root == r.c.trees[r.t].root IN
    /\ Cardinality(LeavesAt(r.pre, r.t)) <= 1
    /\ Cardinality(LeavesAt(r.c, r.t)) <= 1
    /\ after > before =>
         /\ op = "ReplaceOrInsert"
         /\ after = before + 1
         /\ Len(r.pre.heap[r.pre.trees[r.t].root].items)
              >= maxItems(r.pre.trees[r.t])
         /\ Events(r, "split") # {}
    /\ after < before =>
         /\ op \in Deleters
         /\ after = before - 1
         /\ RootCollapsed(r)
    /\ op \in Deleters =>
         /\ root # 0 /\ Len(r.c.heap[root].items) = 0 =>
              Len(r.c.heap[root].children) = 0
         /\ RootEmptied(r) # {} => RootCollapsed(r) /\ after = before - 1

\* A delete can be made that merges the two children of the root of a tree
\* of height 2, which empties the root, and leaves a tree of height 1.
C31_Witness ==
  \E op \in Deleters : \E r \in CowRuns(op) :
    /\ HeightOf(r.pre, r.t) = 2
    /\ HeightOf(r.c, r.t) = 1
    /\ Events(r, "merge") # {}
    /\ RootCollapsed(r)

\* ------------------------------------------------------- the btreeContext
\* The nodes of the tree of the BTree or Builder x
NodesUnder(x) ==
  {Reach(heap, trees[x.tree].root)[j] :
     j \in 1..Len(Reach(heap, trees[x.tree].root))}

\* The nodes of the trees the program holds
NodesInUse ==
  UNION {{Reach(heap, trees[t].root)[j] :
            j \in 1..Len(Reach(heap, trees[t].root))} : t \in DOMAIN trees}

\* The contexts c and d hold the same objects and the same writable set
SameObjects(c, d) ==
  /\ c.heap = d.heap /\ c.trees = d.trees /\ c.pools = d.pools
  /\ c.writables = d.writables /\ c.tracking = d.tracking

\* C32: writableNode(n) of a BTree's or Builder's context, for a node n of
\* its tree: with tracking disabled or n in the writable set it returns n
\* and changes nothing; otherwise it returns a node that was no node of any
\* tree, with n's items and n's child references, adds it to the writable
\* set and leaves n and every other node as they were.
C32_WritableNode ==
  \A x \in Handles : \A n \in NodesUnder(x) :
    LET c == Context(x)
        w == writableNode(c, n) IN
    IF ~x.tracking \/ n \in x.writables
      THEN w.n = n /\ SameObjects(w.c, c)
      ELSE /\ w.n # n
           /\ w.n \notin NodesInUse
           /\ w.c.heap[w.n].items = heap[n].items
           /\ w.c.heap[w.n].children = heap[n].children
           /\ w.c.writables = x.writables \cup {w.n}
           /\ w.c.tracking
           /\ \A m \in DOMAIN heap \ {w.n} : w.c.heap[m] = heap[m]
           /\ w.c.trees = trees

\* A Builder shares a node with children with a snapshot and its pool holds
\* a released node, which writableNode takes for the copy.
C32_Witness ==
  \E x \in Handles : \E n \in NodesUnder(x) :
    /\ x.tracking /\ n \notin x.writables
    /\ Len(heap[n].children) > 0
    /\ pools[x.freelist].freelist # <<>>
    /\ writableNode(Context(x), n).n \in DOMAIN heap

\* The node n is in the free list f
Pooled(f, n) == \E j \in 1..Len(f.freelist) : f.freelist[j] = n

\* freeNode(n) left the objects of c as they are in d
FreeNodeShared(c, d, n) == SameObjects(c, d)

\* freeNode(n) on the objects of c left those of d: n is empty and out of
\* the writable set, and at the end of the pool if that had room
FreeNodeOwned(c, d, n) ==
  /\ d.heap = [c.heap EXCEPT ![n] = emptyNode]
  /\ d.trees = c.trees
  /\ d.tracking = c.tracking
  /\ d.writables = c.writables \ {n}
  /\ d.pools =
       IF Len(c.pools[c.freelist].freelist) < c.pools[c.freelist].cap
         THEN [c.pools EXCEPT ![c.freelist].freelist = Append(@, n)]
         ELSE c.pools

\* The objects when merge, entered with the objects of c, calls freeNode:
\* those after its last assignment, which is the last step merge logs when
\* freeNode does nothing and the one before when freeNode clears the node
BeforeFreeNode(c, n, i) ==
  LET d == merge(c, n, i)
      mergeChild == c.heap[n].children[i + 2] IN
  IF c.tracking /\ mergeChild \notin c.writables
    THEN d.log[Len(d.log)].at
    ELSE d.log[Len(d.log) - 1].at

\* The merges of run r: the step k, the sibling merged away, the objects
\* when freeNode is called with it and the objects the merge leaves
Merges(r) ==
  {[k |-> k,
    mergeChild |-> r.c.log[k].at.heap[r.c.log[k].n].children[r.c.log[k].i + 2],
    c |-> BeforeFreeNode(r.c.log[k].at, r.c.log[k].n, r.c.log[k].i),
    d |-> merge(r.c.log[k].at, r.c.log[k].n, r.c.log[k].i)] :
     k \in Events(r, "merge")}

\* C33: freeNode(n) of a BTree's or Builder's context on a shared node
\* (tracking enabled, n not in the writable set) changes nothing; on a node
\* in the writable set, or with tracking disabled, it empties n, takes it
\* out of the writable set and offers it to the pool.  So it is for every
\* node of the tree, and for the sibling merged away in every merge a
\* delete makes.
C33_FreeNode ==
  /\ \A x \in Handles : \A n \in NodesUnder(x) :
       IF x.tracking /\ n \notin x.writables
         THEN FreeNodeShared(Context(x), freeNode(Context(x), n), n)
         ELSE FreeNodeOwned(Context(x), freeNode(Context(x), n), n)
  /\ \A op \in Deleters : \A r \in CowRuns(op) : \A m \in Merges(r) :
       IF m.c.tracking /\ m.mergeChild \notin m.c.writables
         THEN /\ FreeNodeShared(m.c, m.d, m.mergeChild)
              /\ r.c.heap[m.mergeChild] = r.pre.heap[m.mergeChild]
              /\ ~Pooled(r.c.pools[r.c.freelist], m.mergeChild)
         ELSE FreeNodeOwned(m.c, m.d, m.mergeChild)

\* A delete through a Builder merges away a sibling that is a node of a
\* snapshot the caller holds.
C33_Witness ==
  \E op \in Deleters : \E r \in CowRuns(op) : \E m \in Merges(r) :
    /\ m.c.tracking /\ m.mergeChild \notin m.c.writables
    /\ \E i \in 1..Len(snaps) :
         \E j \in 1..Len(Reach(heap, trees[snaps[i]].root)) :
           Reach(heap, trees[snaps[i]].root)[j] = m.mergeChild

\* ---------------------------------------------------------- pooled nodes
\* The nodes in the free lists
NodesPooled ==
  UNION {{pools[p].freelist[j] : j \in 1..Len(pools[p].freelist)} :
           p \in DOMAIN pools}

\* C34: every node in a free list has no items and no children (so newNode
\* hands out empty nodes), whichever path released it (the sibling merged
\* away, the root a delete collapsed), in the copy-on-write and in the
\* generic implementation, and no node in a free list is a node of a tree
\* or a snapshot.
C34_PooledNodesEmpty ==
  impl \in {"BTree", "Builder", "Builders", "BTreeG"} =>
    \A n \in NodesPooled :
      /\ heap[n].items = <<>>
      /\ heap[n].children = <<>>
      /\ n \notin NodesInUse

\* ------------------------------------------------------------ Set and Build
\* The program starts with t := NewImmutable(d) and b := NewBuilder(t) and
\* keeps t, which is empty, next to the snapshot the last Build returned:
\* snaps = <<t>> or <<t, S>>.  It calls the mutating methods of b, b.Build()
\* and b.Set with t or S.
InitSets ==
  /\ impl = "Builder"
  /\ heap = <<>>
  /\ \E d \in Degrees : trees = <<[degree |-> d, length |-> 0, root |-> 0]>>
  /\ pools = <<NewFreeList(DefaultFreeListSize)>>
  /\ btree = [tree |-> 0, writables |-> {}, tracking |-> FALSE, freelist |-> 0]
  /\ builders = <<NewBuilder(trees, 1, 1)>>
  /\ snaps = <<1>>
  /\ panicked = FALSE
  /\ calls = <<>>
  /\ ref = [cur |-> <<{}>>, snap |-> <<{}>>]

\* S := b.Build(); the caller keeps t and S
Builder_BuildKept(b) ==
  /\ impl = "Builder"
  /\ LET result == builders[b].tree
         x == Set(builders[b], trees, result) IN
     /\ Returns([heap |-> heap, trees |-> trees, pools |-> pools],
                btree, [builders EXCEPT ![b] = x], <<snaps[1], result>>)
     /\ ref' = [ref EXCEPT !.snap = <<ref.snap[1], ref.cur[b]>>]
     /\ UNCHANGED <<panicked, calls>>

NextSets ==
  \/ \E item \in ItemsB : Builder_ReplaceOrInsert(1, item)
  \/ \E item \in ItemsB : Builder_Delete(1, item)
  \/ Builder_DeleteMin(1)
  \/ Builder_DeleteMax(1)
  \/ Builder_BuildKept(1)
  \/ \E i \in 1..2 : Builder_Set(1, i)

SpecSets == InitSets /\ [][NextSets]_vars

\* The trees a Builder can be Set to: the snapshots the caller holds and the
\* tree of each Builder (which Build passes to Set)
Settable ==
  {snaps[i] : i \in 1..Len(snaps)}
    \cup {builders[b].tree : b \in 1..Len(builders)}

\* The nodes of tree struct t
NodesOfTree(t) ==
  {Reach(heap, trees[t].root)[j] : j \in 1..Len(Reach(heap, trees[t].root))}

\* After Set(S) left the Builder struct as y, the Builder reads the contents
\* of S
ReadsAs(y, S) ==
  /\ Ascend(heap, trees, y.tree) = Ascend(heap, trees, S)
  /\ LenOf(trees, y.tree) = LenOf(trees, S)
  /\ Min(heap, trees, y.tree) = Min(heap, trees, S)
  /\ Max(heap, trees, y.tree) = Max(heap, trees, S)

\* A Builder with tracking disabled has no node of a snapshot or of another
\* Builder in its tree
UntrackedOwnsAll ==
  \A b \in 1..Len(builders) :
    ~builders[b].tracking =>
      /\ \A i \in 1..Len(snaps) :
           NodesUnder(builders[b]) \cap NodesOfTree(snaps[i]) = {}
      /\ \A a \in 1..Len(builders) \ {b} :
           NodesUnder(builders[b]) \cap NodesUnder(builders[a]) = {}

\* C35 as stated: Set(S) disables tracking whenever Len() of S is 0 and
\* otherwise enables it with an empty writable set; the Builder then reads
\* the contents of S; tracking is never disabled while a node of a snapshot
\* is in the Builder's tree.
C35_SetTracksByLength ==
  impl \in {"Builder", "Builders"} =>
    /\ \A b \in 1..Len(builders) : \A S \in Settable :
         LET y == Set(builders[b], trees, S) IN
         /\ IF LenOf(trees, S) = 0 THEN ~y.tracking
            ELSE y.tracking /\ y.writables = {}
         /\ ReadsAs(y, S)
         /\ ~y.tracking => NodesOfTree(S) = {}
    /\ UntrackedOwnsAll

\* C35, amended: Set(S) disables tracking when S has no root node and
\* otherwise, also when S has a root node without items and Len() 0,
\* enables it with an empty writable set; the Builder then reads the
\* contents of S; tracking is never disabled while a node of a snapshot is
\* in the Builder's tree.
C35_SetTracksByRoot ==
  impl \in {"Builder", "Builders"} =>
    /\ \A b \in 1..Len(builders) : \A S \in Settable :
         LET y == Set(builders[b], trees, S) IN
         /\ IF trees[S].root = 0 THEN ~y.tracking
            ELSE y.tracking /\ y.writables = {}
         /\ y.tree = S /\ ~y.copied
         /\ ReadsAs(y, S)
         /\ ~y.tracking => NodesOfTree(S) = {}
    /\ UntrackedOwnsAll

\* The caller holds a snapshot with Len() 0 that has a root node, and a
\* Builder with nodes in its writable set can be Set to it.
C35_Witness ==
  /\ impl \in {"Builder", "Builders"}
  /\ \E b \in 1..Len(builders) : \E i \in 1..Len(snaps) :
       /\ LenOf(trees, snaps[i]) = 0
       /\ trees[snaps[i]].root # 0
       /\ builders[b].tree # snaps[i]
       /\ builders[b].writables # {}
       /\ Set(builders[b], trees, snaps[i]).tracking

\* Builder.Build on the Builder struct x: the tree it returns and the struct
\* it leaves
Build(x, ts) == [result |-> x.tree, x |-> Set(x, ts, x.tree)]

\* The call op(item) through the Builder struct y left the tree S and its
\* nodes as they were: it duplicated the tree handle first, wrote no node of
\* S and no field of S, and S still reads as R
ClonesWhatItWrites(y, S, R, op, item) ==
  LET r == CowRun(y, op, item) IN
  /\ r.t \notin DOMAIN trees
  /\ r.t # S
  /\ r.c.trees[S] = trees[S]
  /\ r.c.written \cap NodesOfTree(S) = {}
  /\ S \notin r.c.assigned
  /\ \A n \in NodesOfTree(S) : r.c.heap[n] = heap[n]
  /\ Ascend(r.c.heap, r.c.trees, S) = SortedSeq(R)
  /\ LenOf(r.c.trees, S) = Cardinality(R)

\* C36: Build() returns a snapshot with exactly the Builder's items and Len
\* at the call and leaves the Builder's contents as they are; a second
\* Build() without a mutation in between returns the same tree; Set(S)
\* followed by Build() returns S; and after Build the Builder is as Set
\* leaves it, so that its next mutation duplicates the tree handle first and
\* clones every node of the snapshot it writes.
C36_BuildSnapshots ==
  impl = "Builder" =>
    \A b \in 1..Len(builders) :
      LET x == builders[b]
          first == Build(x, trees) IN
      /\ Holds(first.result, ref.cur[b])
      /\ Holds(first.x.tree, ref.cur[b])
      /\ Build(first.x, trees).result = first.result
      /\ \A i \in 1..Len(snaps) :
           /\ Build(Set(x, trees, snaps[i]), trees).result = snaps[i]
           /\ Holds(snaps[i], ref.snap[i])
      /\ first.x = Set(x, trees, first.result)
      /\ ~first.x.copied /\ first.x.writables = {}
      /\ \A op \in Mutators : \A item \in Operands(op, ItemsB) :
           ClonesWhatItWrites(first.x, first.result, ref.cur[b], op, item)

\* The Builder has nodes of its own in a tree of two levels that is not the
\* snapshot the caller holds: the snapshot Build returns now is a new one,
\* and mutations after it have nodes to clone.
C36_Witness ==
  /\ impl = "Builder" /\ Len(snaps) = 2
  /\ builders[1].tree # snaps[2]
  /\ builders[1].writables # {}
  /\ ref.cur[1] # ref.snap[2]
  /\ height(heap, trees[builders[1].tree].root) = 2
  /\ Build(builders[1], trees).result = builders[1].tree

\* ------------------------------------------------------ what a call copies
\* The nodes of the tree of run r when it returns
NodesAfter(r) ==
  {Reach(r.c.heap, r.c.trees[r.t].root)[j] :
     j \in 1..Len(Reach(r.c.heap, r.c.trees[r.t].root))}

\* The nodes of the tree run r leaves that are no nodes of the tree S
NotOf(r, S) == NodesAfter(r) \ NodesOfTree(S)

\* The Builder of the scenario of trees of height 3, alone, deleting from
\* trees of FillAtLeast keys or more
NextDeepBuilder ==
  \/ \E item \in ItemsD : NextInOrder(item) /\ Builder_ReplaceOrInsert(1, item)
  \/ \E item \in ItemsD :
       Cardinality(ref.cur[1]) >= FillAtLeast /\ Builder_Delete(1, item)
  \/ Cardinality(ref.cur[1]) >= FillAtLeast /\ Builder_DeleteMin(1)
  \/ Cardinality(ref.cur[1]) >= FillAtLeast /\ Builder_DeleteMax(1)
  \/ Cardinality(ref.cur[1]) = MaxKeyD /\ Builder_Build(1)

SpecDeepBuilder == InitBuilder /\ [][NextDeepBuilder]_vars

\* The items a Builder of a tree of up to three levels is given
ItemsC == ItemsB \cup ItemsD

\* The first call op(item) through a Builder that was Set to S or whose
\* Build returned S (its struct is y): at most 2*h+1 nodes of its tree are
\* no nodes of S, h the number of levels of S, they are the writable set,
\* and the other nodes are nodes of S, which are as they were
CopiesPath(y, S, op, item) ==
  LET r == CowRun(y, op, item) IN
  /\ Cardinality(NotOf(r, S)) <= 2 * height(heap, trees[S].root) + 1
  /\ y.tracking => r.c.writables = NotOf(r, S)
  /\ \A n \in NodesOfTree(S) : r.c.heap[n] = heap[n]

\* A later call op(item) through the Builder x copies no node of the
\* writable set: each such node of the tree is still a node of the tree, as
\* the same child of the same parent unless the call moved it, or the call
\* released it; and the call leaves no node in the writable set that is out
\* of the tree
KeepsOwnNodes(x, op, item) ==
  LET r == CowRun(x, op, item) IN
  /\ \A n \in x.writables \cap NodesUnder(x) :
       \/ n \in NodesAfter(r)
       \/ r.c.heap[n] = emptyNode /\ n \notin r.c.writables
  /\ x.tracking => r.c.writables \subseteq NodesAfter(r)
  /\ x.tracking =>
       Cardinality(r.c.writables \ x.writables)
         <= 2 * height(heap, trees[x.tree].root) + 1

\* C37: a mutation on a Builder copies only the nodes it changes.  After
\* Set(S), or Build() returning S, S of h levels of nodes, one
\* ReplaceOrInsert, Delete, DeleteMin or DeleteMax leaves at most 2*h+1
\* nodes in the Builder's tree that are no nodes of S; every other node of
\* its tree is the node of S, unchanged; and no later mutation copies a node
\* of the writable set.
C37_CopiesOnlyChanged ==
  impl = "Builder" =>
    \A b \in 1..Len(builders) :
      \A op \in Mutators : \A item \in Operands(op, ItemsC) :
        /\ \A S \in Settable :
             CopiesPath(Set(builders[b], trees, S), S, op, item)
        /\ KeepsOwnNodes(builders[b], op, item)

\* A ReplaceOrInsert into a snapshot of two levels or more can be made that
\* splits at every level and leaves exactly 2*h+1 new nodes.
C37_Witness ==
  /\ impl = "Builder"
  /\ \E S \in Settable : \E item \in ItemsC :
       /\ height(heap, trees[S].root) >= 2
       /\ Cardinality(NotOf(CowRun(Set(builders[1], trees, S),
                                   "ReplaceOrInsert", item), S))
            = 2 * height(heap, trees[S].root) + 1

\* ------------------------------------------------------- the writable set
\* The nodes of the snapshots the caller holds and of the trees of the
\* Builders other than b
NodesOfOthers(b) ==
  UNION ({NodesOfTree(snaps[i]) : i \in 1..Len(snaps)}
           \cup {NodesUnder(builders[a]) : a \in 1..Len(builders) \ {b}})

\* The call op(item) through the Builder struct x changes the writable set
\* by nodes that were in no tree (newNode and writableNode made them) and by
\* nodes freeNode released, and leaves in it nodes of the Builder's tree and
\* of no other tree
WritablesFollow(b, op, item) ==
  LET x == builders[b]
      r == CowRun(x, op, item) IN
  x.tracking =>
    /\ (r.c.writables \ x.writables) \cap NodesInUse = {}
    /\ \A n \in x.writables \ r.c.writables :
         /\ r.c.heap[n] = emptyNode
         /\ n \notin NodesAfter(r)
    /\ r.c.writables \subseteq NodesAfter(r)
    /\ r.c.writables \cap NodesOfOthers(b) = {}
    /\ \A n \in NodesOfOthers(b) : r.c.heap[n] = heap[n]

\* C38: while the tracking of a Builder is enabled, its writable set holds
\* only nodes of its own tree that are nodes of no snapshot (and of no other
\* Builder's tree); a call adds to the set only nodes newNode or
\* writableNode made and takes from it only nodes freeNode released; Set and
\* Build empty it.
C38_WritablesOwned ==
  impl \in {"Builder", "Builders"} =>
    \A b \in 1..Len(builders) :
      /\ builders[b].tracking =>
           /\ builders[b].writables \subseteq NodesUnder(builders[b])
           /\ builders[b].writables \cap NodesOfOthers(b) = {}
      /\ \A op \in Mutators : \A item \in Operands(op, Inputs) :
           WritablesFollow(b, op, item)
      /\ \A S \in Settable : Set(builders[b], trees, S).writables = {}
      /\ Build(builders[b], trees).x.writables = {}

\* A Builder with tracking enabled has nodes in its writable set and shares
\* other nodes with a snapshot, and a delete can be made that releases a
\* node of the set.
C38_Witness ==
  /\ impl = "Builder"
  /\ builders[1].tracking /\ builders[1].writables # {}
  /\ NodesUnder(builders[1]) \cap NodesOfOthers(1) # {}
  /\ \E op \in Deleters : \E item \in Operands(op, Inputs) :
       builders[1].writables \ CowRun(builders[1], op, item).c.writables # {}

\* ------------------------------------------------------- empty intervals
\* The pairs of bounds (lo, hi) with hi <= lo under the ordering, over every
\* key of the scenario and one above all of them
EmptyIntervals == {p \in Pivots \X Pivots : ~Less(p[1], p[2])}

\* AscendRange(lo, hi) with hi <= lo and DescendRange(hi, lo), whose bounds
\* are lessOrEqual = hi <= greaterThan = lo, on the tree struct t of a BTree,
\* a Builder or a snapshot: the callback is given nothing
NothingCow(t) ==
  \A p \in EmptyIntervals :
    /\ AscendRange(heap, trees, t, p[1], p[2], 0) = <<>>
    /\ DescendRange(heap, trees, t, p[2], p[1], 0) = <<>>

\* The same calls on the BTreeG of the state
NothingG ==
  \A p \in EmptyIntervals :
    /\ AscendRangeG(heap, trees, btree.tree, p[1], p[2], 0).out = <<>>
    /\ DescendRangeG(heap, trees, btree.tree, p[2], p[1], 0).out = <<>>

\* C39: a bounded traversal whose bounds describe an empty interval never
\* invokes the callback: AscendRange(lo, hi) with hi <= lo and
\* DescendRange(lessOrEqual, greaterThan) with lessOrEqual <= greaterThan
\* deliver nothing, whatever the tree holds and whatever its degree, whether
\* or not the bounds are stored in the tree; on a BTree, on the Builders and
\* their snapshots and on a BTreeG.
C39_EmptyIntervals ==
  /\ impl \in {"BTree", "Builder", "Builders"} =>
       \A t \in 1..Len(trees) : NothingCow(t)
  /\ Walkable => NothingG

\* A tree of two levels or more with two stored bounds hi < lo that have a
\* stored item strictly between them, and a bound that is not stored: the
\* ranges from lo up to hi and from hi down to lo are walked into the tree
\* and deliver nothing
C39_Witness ==
  \E i \in HandleIds : \E p \in EmptyIntervals :
    LET t == Handle(i).tree
        s == SortedSeq(RefOf(i)) IN
    /\ height(heap, trees[t].root) >= 2
    /\ Stored(s, p[1]) # {} /\ Stored(s, p[2]) # {}
    /\ \E k \in 1..Len(s) : Less(p[2], s[k]) /\ Less(s[k], p[1])
    /\ \E q \in Pivots : Stored(s, q) = {} /\ Less(q, p[1]) /\ Less(p[2], q)
    /\ AscendRange(heap, trees, t, p[1], p[2], 0) = <<>>
    /\ DescendRange(heap, trees, t, p[2], p[1], 0) = <<>>
    /\ DescendRange(heap, trees, t, p[1], p[2], 0) # <<>>

\* ------------------------------------------- the two iterate implementations
\* The nodes of the heap h as nodes of the copy-on-write implementation
\* (items and children), and as nodes of a BTreeG in use (items, children and
\* the context that holds the ordering)
AsCow(h) ==
  [n \in 1..Len(h) |-> [items |-> h[n].items, children |-> h[n].children]]

AsG(h) ==
  [n \in 1..Len(h) |->
     [items |-> h[n].items, children |-> h[n].children, t |-> 1]]

\* The start and stop bounds of a traversal: none, an item of every key of
\* the scenario, and one above all of them
Optionals == Bounds \cup {nilItem}

\* node.iterate of src/unnamed/part_001 and node.iterate of
\* src/btree_generic.go, called on the node root of the heap h with the same
\* direction, bounds, includeStart and callback (one that returns false on
\* the key until), give the callback the same items and return the same
\* (hit, ok)
SameIterate(h, root, dir, start, stop, includeStart, until) ==
  LET cow == iterate(AsCow(h), root, dir, start, stop, includeStart, FALSE,
                     until, <<>>)
      g == iterateG(AsG(h), root, dir, start, stop, includeStart, FALSE,
                    until, <<>>) IN
  /\ ~g.panic
  /\ g.out = cow.out
  /\ g.hit = cow.hit
  /\ g.ok = cow.ok

\* The roots of the structurally valid trees of the state
ValidRoots ==
  {trees[t].root : t \in {u \in 1..Len(trees) :
     /\ trees[u].root # 0
     /\ TreeStructure(heap, trees[u].root, trees[u].degree)}}

\* The callbacks of a traversal that differ on it: the one that always
\* returns true (0) and, for each key it is given then, the one that returns
\* false on that key; a callback that returns false on another key only is
\* the first of these to both implementations
Callbacks(root, dir, start, stop, includeStart) ==
  LET given == iterate(AsCow(heap), root, dir, start, stop, includeStart,
                       FALSE, 0, <<>>).out
      givenG == iterateG(AsG(heap), root, dir, start, stop, includeStart,
                         FALSE, 0, <<>>).out IN
  {0} \cup {given[k][1] : k \in 1..Len(given)}
      \cup {givenG[k][1] : k \in 1..Len(givenG)}

\* C40: the two traversal implementations are equivalent: for the same
\* structurally valid tree, direction, start bound, stop bound, includeStart
\* flag and callback, node.iterate of src/btree_generic.go and node.iterate of
\* src/unnamed/part_001 invoke the callback with the same items in the same
\* order and return the same pair of results.
C40_IterateEquivalent ==
  \A root \in ValidRoots : \A dir \in {ascend, descend} :
    \A start \in Optionals : \A stop \in Optionals :
      \A includeStart \in BOOLEAN :
        \A until \in Callbacks(root, dir, start, stop, includeStart) :
          SameIterate(heap, root, dir, start, stop, includeStart, until)

\* A tree of three levels and a start bound stored in it with stored items
\* on both sides: the descending traversal from it, start excluded, and
\* the ascending one from it deliver items in both implementations and end on
\* the stop bound or on the callback's false
C40_Witness ==
  \E root \in ValidRoots : \E start \in Bounds : \E stop \in Bounds :
    \E until \in Untils :
      LET down == iterateG(AsG(heap), root, descend, start, stop, FALSE, FALSE,
                           0, <<>>)
          up == iterateG(AsG(heap), root, ascend, start, nilItem, TRUE, FALSE,
                         until, <<>>)
          all == iterate(AsCow(heap), root, ascend, nilItem, nilItem, FALSE,
                         FALSE, 0, <<>>).out IN
      /\ height(heap, root) >= 3
      /\ Stored(all, start) # {} /\ Stored(all, stop) # {}
      /\ Len(down.out) >= 2 /\ ~down.ok /\ down.hit
      /\ \A k \in 1..Len(down.out) : Less(down.out[k], start)
      /\ Len(up.out) >= 2 /\ ~up.ok /\ up.out[1][1] = start[1]
      /\ Len(up.out) + Len(down.out) < Len(all)
      /\ SameIterate(heap, root, descend, start, stop, FALSE, 0)
      /\ SameIterate(heap, root, ascend, start, nilItem, TRUE, until)

====
